---- MODULE Spec2Model ----
(***************************************************************************)
(* Daycare attendance tracker (src/src/App.tsx): the time utilities, the   *)
(* meal-eligibility computation, the record upsert (read, merge,           *)
(* recalculate, write) behind check-in / check-out / clear / manual edit,  *)
(* and the year-indexed rate resolver.                                     *)
(*                                                                         *)
(* Strings the code slices or matches (clock strings) are sequences of     *)
(* one-character strings; all other strings are TLA+ strings.  JavaScript  *)
(* numbers that can be NaN or null are tagged records.                     *)
(***************************************************************************)
EXTENDS Integers, Sequences, FiniteSets, TLC

VARIABLES
  user,         \* useState<User|null>: uid of the signed-in user, or NoUser
  date,         \* useState(today): the selected calendar day
  store,        \* users/{uid}/records: document id -> document
  pending,      \* upsertRecord calls in flight (suspended at an await)
  saveStatus,   \* useState saveStatus
  alertMsg,     \* text of the last alert() shown ("" when none yet)
  timers,       \* armed setTimeout callbacks that blank saveStatus / ratesStatus
  opsStarted,   \* UI handler invocations so far (bounded by MaxOps)
  calc,         \* calcMeals applied to a drawn record (SpecCalc)
  ratesStore,   \* .../reimbursementRates: year -> rate set
  ratesByYear,  \* useState ratesByYear: year -> rate set
  ratesStatus,  \* useState ratesStatus
  ratesWrites,  \* setDoc calls of saveRatesForYear in flight
  kidsStore,    \* users/{uid}/kids: document id -> document
  kids,         \* useState kids: the documents of the last kids snapshot
  kidWrites,    \* setDoc / updateDoc calls of addKid / deactivateKid in flight
  escaped,      \* rejections that left their handler uncaught
  patched,      \* the merge of upsertRecord applied to a drawn patch (SpecPatch)
  summary,      \* the summaries of drawn records (SpecSummary)
  records,      \* useState records: the documents of the last records snapshot
  hist          \* the upsertRecord calls made so far, in order (SpecHist)

vars == <<user, date, store, pending, saveStatus, alertMsg, timers, opsStarted,
          calc, ratesStore, ratesByYear, ratesStatus, ratesWrites,
          kidsStore, kids, kidWrites, escaped, patched, summary, records, hist>>

recVars   == <<user, date, store, pending, saveStatus, alertMsg, timers,
               opsStarted>>
ratesVars == <<ratesStore, ratesByYear, ratesStatus, ratesWrites>>
kidsVars  == <<kidsStore, kids, kidWrites, escaped>>
fnVars    == <<calc, patched, summary>>
auxVars   == <<records, hist>>

-----------------------------------------------------------------------------
(* JavaScript values *)

JsNum(n) == [k |-> "num", v |-> n]
NaN      == [k |-> "NaN"]
Null     == [k |-> "null"]

\* a * b and a + b on numbers; NaN is contagious
JsMul(a, b) == IF a.k = "num" /\ b.k = "num" THEN JsNum(a.v * b.v) ELSE NaN
JsAdd(a, b) == IF a.k = "num" /\ b.k = "num" THEN JsNum(a.v + b.v) ELSE NaN

\* a <= b, a >= b, a < b on numbers; every comparison with NaN is false
JsLe(a, b) == a.k = "num" /\ b.k = "num" /\ a.v <= b.v
JsGe(a, b) == a.k = "num" /\ b.k = "num" /\ a.v >= b.v
JsLt(a, b) == a.k = "num" /\ b.k = "num" /\ a.v < b.v

\* the value of an optional string property that is not there
Undefined == <<"undefined">>

DigitChars == <<"0", "1", "2", "3", "4", "5", "6", "7", "8", "9">>
IsDigit(c) == \E d \in 1..10 : DigitChars[d] = c
DigitVal(c) == (CHOOSE d \in 1..10 : DigitChars[d] = c) - 1

\* String.prototype.trim over the alphabet digits, ":", " ", letters
RECURSIVE trimStart(_)
trimStart(s) == IF s # <<>> /\ Head(s) = " " THEN trimStart(Tail(s)) ELSE s

RECURSIVE trimEnd(_)
trimEnd(s) ==
  IF s # <<>> /\ s[Len(s)] = " " THEN trimEnd(SubSeq(s, 1, Len(s) - 1)) ELSE s

trim(s) == trimEnd(trimStart(s))

RECURSIVE DecimalValue(_)
DecimalValue(s) ==
  IF s = <<>> THEN 0
  ELSE 10 * DecimalValue(SubSeq(s, 1, Len(s) - 1)) + DigitVal(s[Len(s)])

\* Number(s) over that alphabet: blank is 0, a digit string is its value,
\* anything else is NaN
Number(s) ==
  LET t == trim(s) IN
    IF t = <<>> THEN JsNum(0)
    ELSE IF \A i \in 1..Len(t) : IsDigit(t[i]) THEN JsNum(DecimalValue(t))
    ELSE NaN

\* s.slice(a, b) for 0 <= a <= b
slice(s, a, b) ==
  LET e == IF b < Len(s) THEN b ELSE Len(s) IN
    IF a + 1 > e THEN <<>> ELSE SubSeq(s, a + 1, e)

\* { ...a, ...b }
Spread(a, b) ==
  [f \in (DOMAIN a) \cup (DOMAIN b) |-> IF f \in DOMAIN b THEN b[f] ELSE a[f]]

\* r.f for an optional clock-string property
Field(r, f) == IF f \in DOMAIN r THEN r[f] ELSE Undefined

-----------------------------------------------------------------------------
(* Time utilities and meal eligibility *)

MEALS ==
  [ breakfast |-> [ start |-> <<"0", "9", ":", "0", "0">>,
                    end   |-> <<"0", "9", ":", "3", "0">> ],
    amSnack   |-> <<"1", "1", ":", "0", "0">>,
    lunch     |-> <<"1", "3", ":", "0", "0">>,
    pmSnack   |-> <<"1", "5", ":", "0", "0">> ]

toMin(t) ==
  IF t = Undefined \/ t = <<>> THEN Null
  ELSE JsAdd(JsMul(Number(slice(t, 0, 2)), JsNum(60)), Number(slice(t, 3, 5)))

\* /^\d{2}:\d{2}$/.test(t)
MatchesHHMM(t) ==
  /\ Len(t) = 5
  /\ IsDigit(t[1]) /\ IsDigit(t[2])
  /\ t[3] = ":"
  /\ IsDigit(t[4]) /\ IsDigit(t[5])

\* isValidHHMM with a seeded fault: the range test left out
isValidHHMM_formatOnly(t) == MatchesHHMM(t)

isValidHHMM(t) ==
  IF ~MatchesHHMM(t) THEN FALSE
  ELSE LET m == toMin(t) IN
         m # Null /\ JsGe(m, JsNum(0)) /\ JsLt(m, JsNum(24 * 60))

\* calcMeals with seeded faults (the properties below must tell them apart):
\* the breakfast window open at its start
calcMeals_openWindow(r) ==
  LET i  == toMin(Field(r, "inTime"))
      o  == LET m == toMin(Field(r, "outTime")) IN
              IF m = Null THEN JsNum(24 * 60) ELSE m
      bS == toMin(MEALS.breakfast.start)
      bE == toMin(MEALS.breakfast.end)
      at(t) == LET m == toMin(t) IN JsLe(i, m) /\ JsGe(o, m)
  IN IF i = Null THEN r
     ELSE Spread(r,
            [ breakfast |-> IF JsLe(i, bE) /\ JsLt(bS, o) THEN 1 ELSE 0,
              amSnack   |-> IF at(MEALS.amSnack) THEN 1 ELSE 0,
              lunch     |-> IF at(MEALS.lunch) THEN 1 ELSE 0,
              pmSnack   |-> IF at(MEALS.pmSnack) THEN 1 ELSE 0 ])

\* an instant meal not counted when the child leaves at that instant
calcMeals_openInstant(r) ==
  LET i  == toMin(Field(r, "inTime"))
      o  == LET m == toMin(Field(r, "outTime")) IN
              IF m = Null THEN JsNum(24 * 60) ELSE m
      bS == toMin(MEALS.breakfast.start)
      bE == toMin(MEALS.breakfast.end)
      at(t) == LET m == toMin(t) IN JsLe(i, m) /\ JsLt(m, o)
  IN IF i = Null THEN r
     ELSE Spread(r,
            [ breakfast |-> IF JsLe(i, bE) /\ JsGe(o, bS) THEN 1 ELSE 0,
              amSnack   |-> IF at(MEALS.amSnack) THEN 1 ELSE 0,
              lunch     |-> IF at(MEALS.lunch) THEN 1 ELSE 0,
              pmSnack   |-> IF at(MEALS.pmSnack) THEN 1 ELSE 0 ])

\* a flag once set is kept (flag || computed)
calcMeals_keepsFlags(r) ==
  LET i  == toMin(Field(r, "inTime"))
      o  == LET m == toMin(Field(r, "outTime")) IN
              IF m = Null THEN JsNum(24 * 60) ELSE m
      bS == toMin(MEALS.breakfast.start)
      bE == toMin(MEALS.breakfast.end)
      at(t) == LET m == toMin(t) IN JsLe(i, m) /\ JsGe(o, m)
      or(old, cond) == IF old = 1 \/ cond THEN 1 ELSE 0
  IN IF i = Null THEN r
     ELSE Spread(r,
            [ breakfast |-> or(r.breakfast, JsLe(i, bE) /\ JsGe(o, bS)),
              amSnack   |-> or(r.amSnack, at(MEALS.amSnack)),
              lunch     |-> or(r.lunch, at(MEALS.lunch)),
              pmSnack   |-> or(r.pmSnack, at(MEALS.pmSnack)) ])

\* the early return for a missing inTime left out: null compares as 0
calcMeals_noGuard(r) ==
  LET n  == toMin(Field(r, "inTime"))
      i  == IF n = Null THEN JsNum(0) ELSE n
      o  == LET m == toMin(Field(r, "outTime")) IN
              IF m = Null THEN JsNum(24 * 60) ELSE m
      bS == toMin(MEALS.breakfast.start)
      bE == toMin(MEALS.breakfast.end)
      at(t) == LET m == toMin(t) IN JsLe(i, m) /\ JsGe(o, m)
  IN Spread(r,
       [ breakfast |-> IF JsLe(i, bE) /\ JsGe(o, bS) THEN 1 ELSE 0,
         amSnack   |-> IF at(MEALS.amSnack) THEN 1 ELSE 0,
         lunch     |-> IF at(MEALS.lunch) THEN 1 ELSE 0,
         pmSnack   |-> IF at(MEALS.pmSnack) THEN 1 ELSE 0 ])

calcMeals(r) ==
  LET i  == toMin(Field(r, "inTime"))
      o  == LET m == toMin(Field(r, "outTime")) IN
              IF m = Null THEN JsNum(24 * 60) ELSE m
      bS == toMin(MEALS.breakfast.start)
      bE == toMin(MEALS.breakfast.end)
      at(t) == LET m == toMin(t) IN JsLe(i, m) /\ JsGe(o, m)
  IN IF i = Null THEN r
     ELSE Spread(r,
            [ breakfast |-> IF JsLe(i, bE) /\ JsGe(o, bS) THEN 1 ELSE 0,
              amSnack   |-> IF at(MEALS.amSnack) THEN 1 ELSE 0,
              lunch     |-> IF at(MEALS.lunch) THEN 1 ELSE 0,
              pmSnack   |-> IF at(MEALS.pmSnack) THEN 1 ELSE 0 ])

\* new Date().toTimeString().slice(0, 5) at minute m of the day
nowHHMM(m) ==
  LET h == m \div 60
      n == m % 60
  IN << DigitChars[(h \div 10) + 1], DigitChars[(h % 10) + 1], ":",
        DigitChars[(n \div 10) + 1], DigitChars[(n % 10) + 1] >>

-----------------------------------------------------------------------------
(* calcMeals on drawn records (SpecCalc) *)

\* minutes of the day the drawn clock strings denote: the meal boundaries,
\* their neighbours, and times well before and after
CalcMinutes ==
  {480, 540, 545, 555, 560, 570, 571, 600, 659, 660, 661, 720, 780, 900, 901}

\* strings that are empty, malformed, or out of range
OddStrings ==
  { <<>>,
    <<" ">>,
    <<"9", ":", "0", "0">>,
    <<"1", "x", ":", "0", "0">>,
    <<"2", "5", ":", "0", "0">>,
    <<"1", "2", ":", "9", "9">> }

\* Undefined stands for a record that has no such property
CalcTimes == {nowHHMM(m) : m \in CalcMinutes} \cup OddStrings \cup {Undefined}

FlagSets ==
  { [breakfast |-> 0, amSnack |-> 0, lunch |-> 0, pmSnack |-> 0],
    [breakfast |-> 1, amSnack |-> 1, lunch |-> 1, pmSnack |-> 1],
    [breakfast |-> 1, amSnack |-> 0, lunch |-> 1, pmSnack |-> 0],
    [breakfast |-> 0, amSnack |-> 1, lunch |-> 0, pmSnack |-> 1] }

FlagNames == {"breakfast", "amSnack", "lunch", "pmSnack"}

Flags(r) == [f \in FlagNames |-> r[f]]

\* a RecordRow with the given times and flags; an Undefined time is left out
CalcRecord(in, out, fl) ==
  LET core == Spread([ id       |-> <<"2024-03-01", "_", "k1">>,
                       date     |-> "2024-03-01",
                       kidId    |-> "k1",
                       kidName  |-> <<"Ada">>,
                       source   |-> "auto",
                       editReason |-> <<>> ], fl)
      withIn  == IF in = Undefined THEN core
                 ELSE Spread(core, [inTime |-> in])
  IN IF out = Undefined THEN withIn ELSE Spread(withIn, [outTime |-> out])

CalcOff == [phase |-> "off"]

InitCalc ==
  \E in \in CalcTimes, out \in CalcTimes, fl \in FlagSets, fl2 \in FlagSets :
    calc = [ phase |-> "input",
             r     |-> CalcRecord(in, out, fl),
             alt   |-> CalcRecord(in, out, fl2) ]

\* calcMeals(r), and calcMeals of the same record carrying other flags
CalcOnce ==
  /\ calc.phase = "input"
  /\ calc' = [ phase  |-> "once",
               r      |-> calc.r,
               alt    |-> calc.alt,
               out1   |-> calcMeals(calc.r),
               altOut |-> calcMeals(calc.alt) ]

\* calcMeals(calcMeals(r))
CalcTwice ==
  /\ calc.phase = "once"
  /\ calc' = [ phase  |-> "twice",
               r      |-> calc.r,
               alt    |-> calc.alt,
               out1   |-> calc.out1,
               altOut |-> calc.altOut,
               out2   |-> calcMeals(calc.out1) ]

NextCalc ==
  \/ CalcOnce /\ UNCHANGED <<recVars, ratesVars, kidsVars, auxVars, patched, summary>>
  \/ CalcTwice /\ UNCHANGED <<recVars, ratesVars, kidsVars, auxVars, patched, summary>>

-----------------------------------------------------------------------------
(* The records collection and the operations that upsert into it (Spec) *)

MaxOps      == 2   \* UI handler invocations in one behaviour
MaxInFlight == 2   \* upsertRecord calls suspended at an await at one time

NoUser == "null"
Uids   == {"u1"}

\* the children listed on screen (todaysKids)
Kids == { [id |-> "k1", name |-> <<"Ada">>, active |-> TRUE] }

\* today() when the component mounts, and the days the date picker offers
Today == "2024-03-01"
Dates == {"2024-03-01", "2024-03-02"}

\* minutes of the day at which a button is pressed
ClockMinutes == {510, 690}

\* what can be typed into the manual-edit form: <<In, Out>>
TypedTimes ==
  { << <<>>, <<"1", "0", ":", "0", "0">> >>,
    << <<"2", "5", ":", "0", "0">>, <<>> >>,
    << <<"0", "9", ":", "0", "0">>, <<"0", "8", ":", "0", "0">> >>,
    << <<"0", "9", ":", "0", "0">>, <<"1", "x", ":", "0", "0">> >>,
    << <<" ", "0", "9", ":", "0", "0">>, <<"0", "9", ":", "0", "0", " ">> >>,
    << <<"0", "9", ":", "0", "0">>, <<>> >> }

TypedReason == { <<" ">>, <<"late", " ", "pickup">> }

\* strings the code never slices are kept in one piece
CheckInReason  == <<"Check-in button">>
CheckOutReason == <<"Check-out button">>
ClearedReason  == <<"Cleared times">>

\* the sentinel serverTimestamp() puts in a write
ServerTimestamp == "serverTimestamp"

\* user?.uid
UndefinedUid == "undefined"
OptUid(u) == IF u = NoUser THEN UndefinedUid ELSE u

\* stripUndefined with a seeded fault: nothing is removed
stripUndefined_keepsAll(obj) == obj

\* stripUndefined(obj): of the properties the callers pass, editedBy and the
\* clock strings are the ones that can be undefined
stripUndefined(obj) ==
  LET keep == { k \in DOMAIN obj :
                  ~ \/ (k = "editedBy" /\ obj[k] = UndefinedUid)
                    \/ (k \in {"inTime", "outTime"} /\ obj[k] = Undefined) }
  IN [k \in keep |-> obj[k]]

\* recordId with a seeded fault: the day is left out of the key
recordId_kidOnly(d, kid) == <<"", "_", kid.id>>

\* `${date}_${kid.id}`
recordId(d, kid) == <<d, "_", kid.id>>

\* the record upsertRecord starts from when the document does not exist
defaultRecord(d, kid) ==
  [ id         |-> recordId(d, kid),
    date       |-> d,
    kidId      |-> kid.id,
    kidName    |-> kid.name,
    inTime     |-> <<>>,
    outTime    |-> <<>>,
    breakfast  |-> 0,
    amSnack    |-> 0,
    lunch      |-> 0,
    pmSnack    |-> 0,
    source     |-> "auto",
    editReason |-> <<>> ]

\* mergeRecord with a seeded fault: the base spread over the patch
mergeRecord_baseWins(base, patch) ==
  calcMeals(Spread(Spread(stripUndefined(patch), base),
                   [updatedAt |-> ServerTimestamp]))

\* mergeRecord with a seeded fault: the clock strings of the base are not
\* carried into the merge
mergeRecord_dropsTimes(base, patch) ==
  calcMeals(Spread(Spread(Spread(base, [inTime |-> <<>>, outTime |-> <<>>]),
                          stripUndefined(patch)),
                   [updatedAt |-> ServerTimestamp]))

\* calcMeals({ ...base, ...cleanedPatch, updatedAt: serverTimestamp() })
mergeRecord(base, patch) ==
  calcMeals(Spread(Spread(base, stripUndefined(patch)),
                   [updatedAt |-> ServerTimestamp]))

checkInPatch(now, u) ==
  [ inTime     |-> now,
    source     |-> "auto",
    editedBy   |-> OptUid(u),
    editReason |-> CheckInReason ]

checkOutPatch(now, u) ==
  [ outTime    |-> now,
    source     |-> "auto",
    editedBy   |-> OptUid(u),
    editReason |-> CheckOutReason ]

\* clearPatch with a seeded fault: the meal flags not reset
clearPatch_timesOnly(u) ==
  [ inTime     |-> <<>>,
    outTime    |-> <<>>,
    source     |-> "manual",
    editedBy   |-> OptUid(u),
    editReason |-> ClearedReason ]

clearPatch(u) ==
  [ inTime     |-> <<>>,
    outTime    |-> <<>>,
    breakfast  |-> 0,
    amSnack    |-> 0,
    lunch      |-> 0,
    pmSnack    |-> 0,
    source     |-> "manual",
    editedBy   |-> OptUid(u),
    editReason |-> ClearedReason ]

\* manualPatch with a seeded fault: a blank reason is written as well
manualPatch_blankClears(inTrim, outTrim, reasonTrim, u) ==
  [ inTime     |-> inTrim,
    outTime    |-> outTrim,
    source     |-> "manual",
    editedBy   |-> OptUid(u),
    editReason |-> reasonTrim ]

manualPatch(inTrim, outTrim, reasonTrim, u) ==
  LET patch == [ inTime   |-> inTrim,
                 outTime  |-> outTrim,
                 source   |-> "manual",
                 editedBy |-> OptUid(u) ]
  IN IF reasonTrim # <<>> THEN Spread(patch, [editReason |-> reasonTrim])
     ELSE patch

\* which validation alert saveManualTimes raises, "" when none
AlertBadIn   == "Please enter a valid In time (HH:MM)."
AlertBadOut  == "Out time must be blank or a valid HH:MM."
AlertOutFirst == "Out time cannot be earlier than In time."

manualRejection(inTrim, outTrim) ==
  IF inTrim = <<>> \/ ~isValidHHMM(inTrim) THEN AlertBadIn
  ELSE IF outTrim # <<>> /\ ~isValidHHMM(outTrim) THEN AlertBadOut
  ELSE IF outTrim # <<>> /\ JsLt(toMin(outTrim), toMin(inTrim))
       THEN AlertOutFirst
  ELSE ""

failureAlert(kind) ==
  CASE kind = "checkIn"  -> "Check-in failed. See console for error."
    [] kind = "checkOut" -> "Check-out failed. See console for error."
    [] kind = "clear"    -> "Clear failed. See console for error."
    [] kind = "manual"   -> "Save failed. See console for error."

\* the collection as earlier sessions can have left it: empty, or holding
\* today's record of a child checked in at 08:30
InitStores ==
  { << >> } \cup
  { (recordId(Today, kid) :>
       stripUndefined(mergeRecord(defaultRecord(Today, kid),
                                  checkInPatch(nowHHMM(510), u)))) :
      kid \in Kids, u \in Uids }

InitRecords ==
  /\ user = NoUser
  /\ date = Today
  /\ store \in InitStores
  /\ pending = {}
  /\ saveStatus = ""
  /\ alertMsg = ""
  /\ timers = [save |-> 0, rates |-> 0]
  /\ opsStarted = 0

\* onAuthStateChanged(auth, setUser)
AuthChanged(u) ==
  /\ u # user
  /\ user' = u
  /\ UNCHANGED <<date, store, pending, saveStatus, alertMsg, timers, opsStarted>>

CanStart == opsStarted < MaxOps /\ Cardinality(pending) < MaxInFlight

\* the date picker's onChange
SetDate(d) ==
  /\ user # NoUser
  /\ opsStarted < MaxOps
  /\ d # date
  /\ date' = d
  /\ saveStatus' = ""
  /\ opsStarted' = opsStarted + 1
  /\ UNCHANGED <<user, store, pending, alertMsg, timers>>

\* upsertRecord up to its first await: the pending calls after it
upsertRecord(kind, kid, patch) ==
  IF user = NoUser THEN pending
  ELSE pending \cup
         { [ n     |-> CHOOSE i \in 1..MaxInFlight : \A q \in pending : q.n # i,
             kind  |-> kind,
             pc    |-> "getDoc",
             id    |-> recordId(date, kid),
             date  |-> date,
             kid   |-> kid,
             patch |-> patch ] }

checkIn(kid, now) ==
  /\ user # NoUser
  /\ CanStart
  /\ pending' = upsertRecord("checkIn", kid, checkInPatch(nowHHMM(now), user))
  /\ opsStarted' = opsStarted + 1
  /\ UNCHANGED <<user, date, store, saveStatus, alertMsg, timers>>

checkOut(kid, now) ==
  /\ user # NoUser
  /\ CanStart
  /\ pending' = upsertRecord("checkOut", kid, checkOutPatch(nowHHMM(now), user))
  /\ opsStarted' = opsStarted + 1
  /\ UNCHANGED <<user, date, store, saveStatus, alertMsg, timers>>

clearTimes(kid) ==
  /\ user # NoUser
  /\ CanStart
  /\ saveStatus' = "Clearing"
  /\ pending' = upsertRecord("clear", kid, clearPatch(user))
  /\ opsStarted' = opsStarted + 1
  /\ UNCHANGED <<user, date, store, alertMsg, timers>>

saveManualTimes(kid, editIn, editOut, editReason) ==
  LET inTrim     == trim(editIn)
      outTrim    == trim(editOut)
      reasonTrim == trim(editReason)
      rejection  == manualRejection(inTrim, outTrim)
  IN /\ user # NoUser
     /\ CanStart
     /\ opsStarted' = opsStarted + 1
     /\ IF rejection # ""
        THEN /\ saveStatus' = ""
             /\ alertMsg' = rejection
             /\ UNCHANGED pending
        ELSE /\ saveStatus' = "Saving"
             /\ pending' = upsertRecord("manual", kid,
                             manualPatch(inTrim, outTrim, reasonTrim, user))
             /\ UNCHANGED alertMsg
     /\ UNCHANGED <<user, date, store, timers>>

\* getDocResolves with a seeded fault: the record read is not used, the
\* patch is always merged over the default record
getDocResolves_readsDefault(p) ==
  /\ p \in pending
  /\ p.pc = "getDoc"
  /\ LET merged == mergeRecord(defaultRecord(p.date, p.kid), p.patch)
     IN pending' = (pending \ {p}) \cup
                     { [ n    |-> p.n,
                         kind |-> p.kind,
                         pc   |-> "setDoc",
                         id   |-> p.id,
                         doc  |-> stripUndefined(merged) ] }
  /\ UNCHANGED <<user, date, store, saveStatus, alertMsg, timers, opsStarted>>

\* getDocResolves with a seeded fault: an upsert whose read resolves after a
\* sign-out is dropped
getDocResolves_dropsSignedOut(p) ==
  /\ p \in pending
  /\ p.pc = "getDoc"
  /\ LET base   == IF p.id \in DOMAIN store THEN store[p.id]
                   ELSE defaultRecord(p.date, p.kid)
         merged == mergeRecord(base, p.patch)
     IN pending' = (pending \ {p}) \cup
                     (IF user = NoUser THEN {}
                      ELSE { [ n    |-> p.n,
                               kind |-> p.kind,
                               pc   |-> "setDoc",
                               id   |-> p.id,
                               doc  |-> stripUndefined(merged) ] })
  /\ UNCHANGED <<user, date, store, saveStatus, alertMsg, timers, opsStarted>>

\* getDoc resolves: base, merge, recalculation, and setDoc is issued
getDocResolves(p) ==
  /\ p \in pending
  /\ p.pc = "getDoc"
  /\ LET base   == IF p.id \in DOMAIN store THEN store[p.id]
                   ELSE defaultRecord(p.date, p.kid)
         merged == mergeRecord(base, p.patch)
     IN pending' = (pending \ {p}) \cup
                     { [ n    |-> p.n,
                         kind |-> p.kind,
                         pc   |-> "setDoc",
                         id   |-> p.id,
                         doc  |-> stripUndefined(merged) ] }
  /\ UNCHANGED <<user, date, store, saveStatus, alertMsg, timers, opsStarted>>

\* setDocResolves with a seeded fault: the write replaces the collection by
\* the one document
setDocResolves_wholeStore(p) ==
  /\ p \in pending
  /\ p.pc = "setDoc"
  /\ store' = (p.id :> p.doc)
  /\ pending' = pending \ {p}
  /\ IF p.kind \in {"clear", "manual"}
     THEN /\ saveStatus' = (IF p.kind = "clear" THEN "Cleared" ELSE "Saved")
          /\ timers' = [timers EXCEPT !.save = @ + 1]
     ELSE UNCHANGED <<saveStatus, timers>>
  /\ UNCHANGED <<user, date, alertMsg, opsStarted>>

\* setDocResolves with a seeded fault: a stored inTime is kept when the
\* document written would blank it
setDocResolves_keepsInTime(p) ==
  /\ p \in pending
  /\ p.pc = "setDoc"
  /\ store' = Spread(store,
                (p.id :> IF /\ p.id \in DOMAIN store
                            /\ p.doc.inTime = <<>>
                         THEN calcMeals(Spread(p.doc,
                                [inTime |-> store[p.id].inTime]))
                         ELSE p.doc))
  /\ pending' = pending \ {p}
  /\ IF p.kind \in {"clear", "manual"}
     THEN /\ saveStatus' = (IF p.kind = "clear" THEN "Cleared" ELSE "Saved")
          /\ timers' = [timers EXCEPT !.save = @ + 1]
     ELSE UNCHANGED <<saveStatus, timers>>
  /\ UNCHANGED <<user, date, alertMsg, opsStarted>>

\* setDocResolves with a seeded fault: clearing deletes the document
setDocResolves_clearDeletes(p) ==
  /\ p \in pending
  /\ p.pc = "setDoc"
  /\ store' = IF p.kind = "clear"
              THEN [id \in DOMAIN store \ {p.id} |-> store[id]]
              ELSE Spread(store, (p.id :> p.doc))
  /\ pending' = pending \ {p}
  /\ IF p.kind \in {"clear", "manual"}
     THEN /\ saveStatus' = (IF p.kind = "clear" THEN "Cleared" ELSE "Saved")
          /\ timers' = [timers EXCEPT !.save = @ + 1]
     ELSE UNCHANGED <<saveStatus, timers>>
  /\ UNCHANGED <<user, date, alertMsg, opsStarted>>

\* setDoc resolves: the document is stored and the handler runs to its end
setDocResolves(p) ==
  /\ p \in pending
  /\ p.pc = "setDoc"
  /\ store' = Spread(store, (p.id :> p.doc))
  /\ pending' = pending \ {p}
  /\ IF p.kind \in {"clear", "manual"}
     THEN /\ saveStatus' = (IF p.kind = "clear" THEN "Cleared" ELSE "Saved")
          /\ timers' = [timers EXCEPT !.save = @ + 1]
     ELSE UNCHANGED <<saveStatus, timers>>
  /\ UNCHANGED <<user, date, alertMsg, opsStarted>>

\* getDoc or setDoc rejects: the handler's catch block
upsertRejects(p) ==
  /\ p \in pending
  /\ pending' = pending \ {p}
  /\ alertMsg' = failureAlert(p.kind)
  /\ saveStatus' = (IF p.kind \in {"clear", "manual"} THEN "" ELSE saveStatus)
  /\ UNCHANGED <<user, date, store, timers, opsStarted>>

\* an armed setTimeout callback runs
statusTimeout ==
  /\ timers.save > 0
  /\ timers' = [timers EXCEPT !.save = @ - 1]
  /\ saveStatus' = ""
  /\ UNCHANGED <<user, date, store, pending, alertMsg, opsStarted>>

-----------------------------------------------------------------------------
(* The kids collection: adding and deactivating a child, the live snapshot.
   Names are sequences of pieces so that trim() has something to remove; the
   order of the snapshot (orderBy name) is not modelled, kids is a set. *)

\* the ids crypto.randomUUID() can return
KidIds == {"k1", "k2"}

\* what can be in the new-child field when Add is pressed
TypedNames == { <<" ">>, <<" ", "Bo">> }

\* the kids collection as earlier sessions left it: the listed children
KidDocs == [id \in {k.id : k \in Kids} |-> CHOOSE k \in Kids : k.id = id]

\* kids.filter((k) => k.active)
todaysKids == {k \in kids : k.active}

InitKids ==
  /\ kidsStore = KidDocs
  /\ kids = Kids
  /\ kidWrites = {}
  /\ escaped = 0

\* addKid up to its await; id is the value randomUUID returned
addKid(newKid, id) ==
  LET name == trim(newKid)
  IN /\ user # NoUser
     /\ opsStarted < MaxOps /\ Cardinality(kidWrites) < MaxInFlight
     /\ id \notin DOMAIN kidsStore
     /\ \A w \in kidWrites : w.id # id
     /\ opsStarted' = opsStarted + 1
     /\ IF name = <<>>
        THEN UNCHANGED kidWrites
        ELSE kidWrites' = kidWrites \cup
               { [ n    |-> CHOOSE i \in 1..MaxInFlight :
                              \A w \in kidWrites : w.n # i,
                   call |-> "setDoc",
                   id   |-> id,
                   data |-> [id |-> id, name |-> name, active |-> TRUE] ] }
     /\ UNCHANGED <<user, date, store, pending, saveStatus, alertMsg, timers,
                    kidsStore, kids, escaped>>

\* deactivateKid up to its await; ok is what confirm() returned
deactivateKid(kid, ok) ==
  /\ user # NoUser
  /\ opsStarted < MaxOps /\ Cardinality(kidWrites) < MaxInFlight
  /\ opsStarted' = opsStarted + 1
  /\ IF ~ok
     THEN UNCHANGED kidWrites
     ELSE kidWrites' = kidWrites \cup
            { [ n    |-> CHOOSE i \in 1..MaxInFlight :
                           \A w \in kidWrites : w.n # i,
                call |-> "updateDoc",
                id   |-> kid.id,
                data |-> [active |-> FALSE] ] }
  /\ UNCHANGED <<user, date, store, pending, saveStatus, alertMsg, timers,
                 kidsStore, kids, escaped>>

\* kidsAfter with a seeded fault: updateDoc flips the active flag
kidsAfter_flips(w) ==
  IF w.call = "setDoc" THEN Spread(kidsStore, (w.id :> w.data))
  ELSE Spread(kidsStore,
         (w.id :> Spread(kidsStore[w.id],
                         [active |-> ~kidsStore[w.id].active])))

\* what the collection holds after the call: setDoc replaces the document,
\* updateDoc overwrites the named fields of an existing one
kidsAfter(w) ==
  IF w.call = "setDoc" THEN Spread(kidsStore, (w.id :> w.data))
  ELSE Spread(kidsStore, (w.id :> Spread(kidsStore[w.id], w.data)))

\* the setDoc of addKid or the updateDoc of deactivateKid resolves
kidWriteResolves(w) ==
  /\ w \in kidWrites
  /\ w.call = "updateDoc" => w.id \in DOMAIN kidsStore
  /\ kidsStore' = kidsAfter(w)
  /\ kidWrites' = kidWrites \ {w}
  /\ UNCHANGED <<recVars, kids, escaped>>

\* it rejects: neither handler has a catch block, the rejection leaves it
kidWriteRejects(w) ==
  /\ w \in kidWrites
  /\ kidWrites' = kidWrites \ {w}
  /\ escaped' = escaped + 1
  /\ UNCHANGED <<recVars, kidsStore, kids>>

\* unsubKidsSnapshot with a seeded fault: the listener is not detached at
\* sign-out
unsubKidsSnapshot_notDetached ==
  /\ kids' = {kidsStore[id] : id \in DOMAIN kidsStore}
  /\ kids' # kids
  /\ UNCHANGED <<recVars, kidsStore, kidWrites, escaped>>

\* the kids listener: setKids(snap.docs.map(...))
unsubKidsSnapshot ==
  /\ user # NoUser
  /\ kids' = {kidsStore[id] : id \in DOMAIN kidsStore}
  /\ kids' # kids
  /\ UNCHANGED <<recVars, kidsStore, kidWrites, escaped>>

\* unsubRecsSnapshot with a seeded fault: the documents of the snapshot are
\* added to the local list instead of replacing it
unsubRecsSnapshot_appends ==
  /\ user # NoUser
  /\ records' = records \cup {store[id] : id \in DOMAIN store}
  /\ records' # records
  /\ UNCHANGED <<recVars, hist>>

\* the records listener: setRecords(snap.docs.map(...)); like kids, records
\* is a set, the order of the snapshot (orderBy date) is not modelled
unsubRecsSnapshot ==
  /\ user # NoUser
  /\ records' = {store[id] : id \in DOMAIN store}
  /\ records' # records
  /\ UNCHANGED <<recVars, hist>>

InitRates ==
  /\ ratesStore = << >>
  /\ ratesByYear = << >>
  /\ ratesStatus = ""
  /\ ratesWrites = {}

FnOff == [phase |-> "off"]

\* nothing delivered by the records listener yet; no call history kept
InitAux ==
  /\ records = {}
  /\ hist = FnOff

Init ==
  /\ InitRecords
  /\ InitRates
  /\ InitKids
  /\ calc = CalcOff
  /\ InitAux
  /\ patched = FnOff
  /\ summary = FnOff

Next ==
  \/ \E u \in Uids \cup {NoUser} : AuthChanged(u) /\ UNCHANGED <<fnVars, auxVars, ratesVars, kidsVars>>
  \/ \E d \in Dates : SetDate(d) /\ UNCHANGED <<fnVars, auxVars, ratesVars, kidsVars>>
  \/ \E kid \in Kids, now \in ClockMinutes :
       checkIn(kid, now) /\ UNCHANGED <<fnVars, auxVars, ratesVars, kidsVars>>
  \/ \E kid \in Kids, now \in ClockMinutes :
       checkOut(kid, now) /\ UNCHANGED <<fnVars, auxVars, ratesVars, kidsVars>>
  \/ \E kid \in Kids : clearTimes(kid) /\ UNCHANGED <<fnVars, auxVars, ratesVars, kidsVars>>
  \/ \E kid \in Kids, et \in TypedTimes, er \in TypedReason :
       saveManualTimes(kid, et[1], et[2], er) /\ UNCHANGED <<fnVars, auxVars, ratesVars, kidsVars>>
  \/ \E p \in pending : getDocResolves(p) /\ UNCHANGED <<fnVars, auxVars, ratesVars, kidsVars>>
  \/ \E p \in pending : setDocResolves(p) /\ UNCHANGED <<fnVars, auxVars, ratesVars, kidsVars>>
  \/ \E p \in pending : upsertRejects(p) /\ UNCHANGED <<fnVars, auxVars, ratesVars, kidsVars>>
  \/ statusTimeout /\ UNCHANGED <<fnVars, auxVars, ratesVars, kidsVars>>

Spec == Init /\ [][Next]_vars

CalcInit ==
  /\ InitRecords
  /\ InitRates
  /\ InitKids
  /\ InitCalc
  /\ InitAux
  /\ patched = FnOff
  /\ summary = FnOff

SpecCalc == CalcInit /\ [][NextCalc]_vars

-----------------------------------------------------------------------------
(* The reimbursement rates: saving, the live snapshot, the resolver
   (SpecRates).  Amounts are in thousandths of a dollar; the documents are
   keyed by the year, whose decimal string is the document id. *)

\* the years that can be in the Year field, and the years rates are asked for
TypedYears == {1999, 2021, 2022, 2024, 2101}
QueryYears == 2020..2025

\* what Number() makes of the three rate fields: <<breakfast, snack, lunch>>
TypedRates ==
  { <<JsNum(2000), JsNum(1000), JsNum(3500)>>,
    <<JsNum(2504), JsNum(996), JsNum(3500)>>,
    <<NaN, JsNum(1000), JsNum(3500)>>,
    <<JsNum(2000), JsNum(0 - 1000), JsNum(3500)>> }

AlertBadRates ==
  "Please enter valid non-negative numbers for rates and a valid year."
AlertRatesFailed ==
  "Saving reimbursement rates failed. See console for error."

\* Number.isFinite
isFinite(x) == x.k = "num"

\* Math.round(n * 100) / 100 of a non-negative amount
round2(n) == ((n + 5) \div 10) * 10

\* ratesAreBad with a seeded fault: no upper limit on the year
ratesAreBad_noUpperYear(y, b, s, l) ==
  \/ y < 2000
  \/ ~isFinite(b) \/ JsLt(b, JsNum(0))
  \/ ~isFinite(s) \/ JsLt(s, JsNum(0))
  \/ ~isFinite(l) \/ JsLt(l, JsNum(0))

ratesAreBad(y, b, s, l) ==
  \/ y < 2000
  \/ y > 2100
  \/ ~isFinite(b) \/ JsLt(b, JsNum(0))
  \/ ~isFinite(s) \/ JsLt(s, JsNum(0))
  \/ ~isFinite(l) \/ JsLt(l, JsNum(0))

saveRatesForYear(y, b, s, l) ==
  /\ user # NoUser
  /\ opsStarted < MaxOps /\ Cardinality(ratesWrites) < MaxInFlight
  /\ opsStarted' = opsStarted + 1
  /\ IF ratesAreBad(y, b, s, l)
     THEN /\ ratesStatus' = ""
          /\ alertMsg' = AlertBadRates
          /\ UNCHANGED ratesWrites
     ELSE /\ ratesStatus' = "Saving"
          /\ ratesWrites' = ratesWrites \cup
               { [ n       |-> CHOOSE i \in 1..MaxInFlight :
                                 \A w \in ratesWrites : w.n # i,
                   id      |-> y,
                   payload |-> [ year      |-> y,
                                 breakfast |-> round2(b.v),
                                 snack     |-> round2(s.v),
                                 lunch     |-> round2(l.v),
                                 updatedAt |-> ServerTimestamp ] ] }
          /\ UNCHANGED alertMsg
  /\ UNCHANGED <<user, date, store, pending, saveStatus, timers, ratesStore,
                 ratesByYear>>

\* setDoc of a rate set resolves
ratesSetDocResolves(w) ==
  /\ w \in ratesWrites
  /\ ratesStore' = Spread(ratesStore, (w.id :> w.payload))
  /\ ratesWrites' = ratesWrites \ {w}
  /\ ratesStatus' = "Saved"
  /\ timers' = [timers EXCEPT !.rates = @ + 1]
  /\ UNCHANGED <<user, date, store, pending, saveStatus, alertMsg, opsStarted,
                 ratesByYear>>

\* setDoc of a rate set rejects
ratesSetDocRejects(w) ==
  /\ w \in ratesWrites
  /\ ratesWrites' = ratesWrites \ {w}
  /\ ratesStatus' = ""
  /\ alertMsg' = AlertRatesFailed
  /\ UNCHANGED <<user, date, store, pending, saveStatus, timers, opsStarted,
                 ratesStore, ratesByYear>>

ratesStatusTimeout ==
  /\ timers.rates > 0
  /\ timers' = [timers EXCEPT !.rates = @ - 1]
  /\ ratesStatus' = ""
  /\ UNCHANGED <<user, date, store, pending, saveStatus, alertMsg, opsStarted,
                 ratesStore, ratesByYear, ratesWrites>>

\* the rates listener: map[r.year] = r for every document of the snapshot
ratesSnapshotMap(docs) ==
  [y \in {d.year : d \in docs} |-> CHOOSE d \in docs : d.year = y]

unsubRatesSnapshot ==
  /\ user # NoUser
  /\ ratesByYear' =
       ratesSnapshotMap({ratesStore[id] : id \in DOMAIN ratesStore})
  /\ ratesByYear' # ratesByYear
  /\ UNCHANGED <<recVars, ratesStore, ratesStatus, ratesWrites>>

\* [...S].sort((a, b) => a - b)
RECURSIVE sortAscending(_)
sortAscending(S) ==
  IF S = {} THEN <<>>
  ELSE LET m == CHOOSE x \in S : \A z \in S : x <= z
       IN <<m>> \o sortAscending(S \ {m})

\* the loop of getRatesForYear from position i on: the last year <= y before
\* the first year > y; 0 stands for null
RECURSIVE bestPrior(_, _, _, _)
bestPrior(years, y, i, best) ==
  IF i > Len(years) THEN best
  ELSE IF years[i] <= y THEN bestPrior(years, y, i + 1, years[i])
  ELSE best

\* getRatesForYear with a seeded fault: with no earlier year, the earliest
\* later year is used
getRatesForYear_fallsForward(y) ==
  IF y \in DOMAIN ratesByYear THEN ratesByYear[y]
  ELSE LET years == sortAscending(DOMAIN ratesByYear)
           best  == bestPrior(years, y, 1, 0)
       IN IF best # 0 THEN ratesByYear[best]
          ELSE IF years # <<>> THEN ratesByYear[years[1]]
          ELSE [year |-> y, breakfast |-> 0, snack |-> 0, lunch |-> 0]

getRatesForYear(y) ==
  IF y \in DOMAIN ratesByYear THEN ratesByYear[y]
  ELSE LET years == sortAscending(DOMAIN ratesByYear)
           best  == bestPrior(years, y, 1, 0)
       IN IF best # 0 THEN ratesByYear[best]
          ELSE [year |-> y, breakfast |-> 0, snack |-> 0, lunch |-> 0]

NextRates ==
  \/ \E u \in Uids \cup {NoUser} : AuthChanged(u) /\ UNCHANGED <<fnVars, auxVars, ratesVars, kidsVars>>
  \/ \E y \in TypedYears, r \in TypedRates :
       saveRatesForYear(y, r[1], r[2], r[3]) /\ UNCHANGED <<fnVars, auxVars, kidsVars>>
  \/ \E w \in ratesWrites : ratesSetDocResolves(w) /\ UNCHANGED <<fnVars, auxVars, kidsVars>>
  \/ \E w \in ratesWrites : ratesSetDocRejects(w) /\ UNCHANGED <<fnVars, auxVars, kidsVars>>
  \/ ratesStatusTimeout /\ UNCHANGED <<fnVars, auxVars, kidsVars>>
  \/ unsubRatesSnapshot /\ UNCHANGED <<fnVars, auxVars, kidsVars>>

SpecRates == Init /\ [][NextRates]_vars

-----------------------------------------------------------------------------
(* The component as a whole: every handler that touches the store, the
   three listeners, sign-in and sign-out (SpecApp).  The handlers are those
   above, on fewer typed inputs. *)

\* minutes of the day of a check-in and of a check-out
AppInMinutes  == {510}
AppOutMinutes == {690}

\* manual-edit forms: one that is saved, one that is rejected
AppTypedTimes ==
  { << <<"0", "9", ":", "0", "0">>, <<>> >>,
    << <<"2", "5", ":", "0", "0">>, <<>> >> }

\* the Year field and the rate fields when Save Rates is pressed
AppTypedYears == {1999, 2024}
AppTypedRates == <<JsNum(2504), JsNum(996), JsNum(3500)>>

\* the state after construction: nobody signed in, nothing delivered yet
AppInit ==
  /\ InitRecords
  /\ InitRates
  /\ kidsStore = KidDocs
  /\ kids = {}
  /\ kidWrites = {}
  /\ escaped = 0
  /\ calc = CalcOff
  /\ InitAux
  /\ patched = FnOff
  /\ summary = FnOff

NextApp ==
  \/ \E u \in Uids \cup {NoUser} :
       AuthChanged(u) /\ UNCHANGED <<fnVars, auxVars, ratesVars, kidsVars>>
  \/ unsubKidsSnapshot /\ UNCHANGED <<fnVars, auxVars, ratesVars>>
  \/ unsubRecsSnapshot /\ UNCHANGED <<fnVars, ratesVars, kidsVars>>
  \/ unsubRatesSnapshot /\ UNCHANGED <<fnVars, auxVars, kidsVars>>
  \/ \E nm \in TypedNames, id \in KidIds :
       addKid(nm, id) /\ UNCHANGED <<fnVars, auxVars, ratesVars>>
  \/ \E kid \in todaysKids, ok \in BOOLEAN :
       deactivateKid(kid, ok) /\ UNCHANGED <<fnVars, auxVars, ratesVars>>
  \/ \E w \in kidWrites : kidWriteResolves(w) /\ UNCHANGED <<fnVars, auxVars, ratesVars>>
  \/ \E w \in kidWrites : kidWriteRejects(w) /\ UNCHANGED <<fnVars, auxVars, ratesVars>>
  \/ \E kid \in todaysKids, now \in AppInMinutes :
       checkIn(kid, now) /\ UNCHANGED <<fnVars, auxVars, ratesVars, kidsVars>>
  \/ \E kid \in todaysKids, now \in AppOutMinutes :
       checkOut(kid, now) /\ UNCHANGED <<fnVars, auxVars, ratesVars, kidsVars>>
  \/ \E kid \in todaysKids :
       clearTimes(kid) /\ UNCHANGED <<fnVars, auxVars, ratesVars, kidsVars>>
  \/ \E kid \in todaysKids, et \in AppTypedTimes, er \in TypedReason :
       saveManualTimes(kid, et[1], et[2], er)
         /\ UNCHANGED <<fnVars, auxVars, ratesVars, kidsVars>>
  \/ \E p \in pending :
       getDocResolves(p) /\ UNCHANGED <<fnVars, auxVars, ratesVars, kidsVars>>
  \/ \E p \in pending :
       setDocResolves(p) /\ UNCHANGED <<fnVars, auxVars, ratesVars, kidsVars>>
  \/ \E p \in pending :
       upsertRejects(p) /\ UNCHANGED <<fnVars, auxVars, ratesVars, kidsVars>>
  \/ statusTimeout /\ UNCHANGED <<fnVars, auxVars, ratesVars, kidsVars>>
  \/ \E y \in AppTypedYears :
       saveRatesForYear(y, AppTypedRates[1], AppTypedRates[2], AppTypedRates[3])
         /\ UNCHANGED <<fnVars, auxVars, kidsVars>>
  \/ \E w \in ratesWrites :
       ratesSetDocResolves(w) /\ UNCHANGED <<fnVars, auxVars, kidsVars>>
  \/ \E w \in ratesWrites :
       ratesSetDocRejects(w) /\ UNCHANGED <<fnVars, auxVars, kidsVars>>
  \/ ratesStatusTimeout /\ UNCHANGED <<fnVars, auxVars, kidsVars>>

SpecApp == AppInit /\ [][NextApp]_vars

\* the store answers the call that the upsert with ticket n is waiting for
StoreAnswers(n) ==
  /\ \E p \in pending :
       /\ p.n = n
       /\ upsertRejects(p) \/ setDocResolves(p) \/ getDocResolves(p)
  /\ UNCHANGED <<fnVars, auxVars, ratesVars, kidsVars>>

\* the steps that bear on an upsert in flight: sign-in and sign-out, the kids
\* and records snapshots, the four record handlers, the store's answers and
\* the status timer
NextLive ==
  \/ \E u \in Uids \cup {NoUser} :
       AuthChanged(u) /\ UNCHANGED <<fnVars, auxVars, ratesVars, kidsVars>>
  \/ unsubKidsSnapshot /\ UNCHANGED <<fnVars, auxVars, ratesVars>>
  \/ unsubRecsSnapshot /\ UNCHANGED <<fnVars, ratesVars, kidsVars>>
  \/ \E kid \in todaysKids, now \in AppInMinutes :
       checkIn(kid, now) /\ UNCHANGED <<fnVars, auxVars, ratesVars, kidsVars>>
  \/ \E kid \in todaysKids, now \in AppOutMinutes :
       checkOut(kid, now) /\ UNCHANGED <<fnVars, auxVars, ratesVars, kidsVars>>
  \/ \E kid \in todaysKids :
       clearTimes(kid) /\ UNCHANGED <<fnVars, auxVars, ratesVars, kidsVars>>
  \/ \E kid \in todaysKids, et \in AppTypedTimes, er \in TypedReason :
       saveManualTimes(kid, et[1], et[2], er)
         /\ UNCHANGED <<fnVars, auxVars, ratesVars, kidsVars>>
  \/ \E n \in 1..MaxInFlight : StoreAnswers(n)
  \/ statusTimeout /\ UNCHANGED <<fnVars, auxVars, ratesVars, kidsVars>>

\* the record side of the component with a store that eventually answers
\* every getDoc and setDoc of an upsert, by resolving or by rejecting it
SpecAppLive ==
  /\ AppInit
  /\ [][NextLive]_vars
  /\ \A n \in 1..MaxInFlight : WF_vars(StoreAnswers(n))

-----------------------------------------------------------------------------
(* The manual-edit form on its own (SpecManual): what can be typed into it,
   what saveManualTimes lets through, and what its upsert stores. *)

\* typed <<In, Out>>: well-formed and malformed strings, minutes of 60 and
\* above, hours of 24 and above
ManualTypedTimes ==
  { << <<"0", "9", ":", "0", "0">>, <<>> >>,
    << <<"0", "9", ":", "0", "0">>, <<"1", "2", ":", "5", "9">> >>,
    << <<"1", "2", ":", "9", "9">>, <<>> >>,
    << <<"0", "9", ":", "0", "0">>, <<"0", "9", ":", "6", "0">> >>,
    << <<"2", "3", ":", "6", "0">>, <<>> >>,
    << <<"2", "4", ":", "0", "0">>, <<>> >>,
    << <<"9", ":", "0", "0">>, <<>> >>,
    << <<"0", "9", ":", "0", "0">>, <<"1", "2", ":", "5">> >> }

ManualInit ==
  /\ InitRecords
  /\ InitRates
  /\ InitKids
  /\ calc = CalcOff
  /\ InitAux
  /\ patched = FnOff
  /\ summary = FnOff

NextManual ==
  \/ \E u \in Uids \cup {NoUser} :
       AuthChanged(u) /\ UNCHANGED <<fnVars, auxVars, ratesVars, kidsVars>>
  \/ \E kid \in Kids, et \in ManualTypedTimes, er \in TypedReason :
       saveManualTimes(kid, et[1], et[2], er)
         /\ UNCHANGED <<fnVars, auxVars, ratesVars, kidsVars>>
  \/ \E p \in pending :
       getDocResolves(p) /\ UNCHANGED <<fnVars, auxVars, ratesVars, kidsVars>>
  \/ \E p \in pending :
       setDocResolves(p) /\ UNCHANGED <<fnVars, auxVars, ratesVars, kidsVars>>
  \/ \E p \in pending :
       upsertRejects(p) /\ UNCHANGED <<fnVars, auxVars, ratesVars, kidsVars>>
  \/ statusTimeout /\ UNCHANGED <<fnVars, auxVars, ratesVars, kidsVars>>

SpecManual == ManualInit /\ [][NextManual]_vars

-----------------------------------------------------------------------------
(* Two accounts on one page (SpecAuth).  kidsStore, store and ratesStore are
   the collections under users/u1; a second account signs in on the same
   page, whose collections under users/u2 are empty and stay empty, as in
   these behaviours its user presses nothing. *)

GuestUid == "u2"

\* the first snapshots of the listeners attached for the second account:
\* setKids([]), setRecords([]), setRatesByYear({})
guestSnapshot ==
  /\ user = GuestUid
  /\ \/ kids' = {} /\ kids # {} /\ UNCHANGED <<records, ratesByYear>>
     \/ records' = {} /\ records # {} /\ UNCHANGED <<kids, ratesByYear>>
     \/ ratesByYear' = << >> /\ ratesByYear # << >>
          /\ UNCHANGED <<kids, records>>
  /\ UNCHANGED <<recVars, fnVars, hist, kidsStore, kidWrites, escaped,
                 ratesStore, ratesStatus, ratesWrites>>

NextAuth ==
  \/ user \in Uids /\ NextApp
  \/ user = NoUser /\ AuthChanged(GuestUid)
       /\ UNCHANGED <<fnVars, auxVars, ratesVars, kidsVars>>
  \/ user = GuestUid /\ AuthChanged(NoUser)
       /\ UNCHANGED <<fnVars, auxVars, ratesVars, kidsVars>>
  \/ user = NoUser /\ \E u \in Uids :
       AuthChanged(u) /\ UNCHANGED <<fnVars, auxVars, ratesVars, kidsVars>>
  \/ guestSnapshot
  \/ user \notin Uids /\ \E n \in 1..MaxInFlight : StoreAnswers(n)
  \/ user \notin Uids /\ \E w \in kidWrites :
       (kidWriteResolves(w) \/ kidWriteRejects(w))
         /\ UNCHANGED <<fnVars, auxVars, ratesVars>>
  \/ user \notin Uids /\ \E w \in ratesWrites :
       (ratesSetDocResolves(w) \/ ratesSetDocRejects(w))
         /\ UNCHANGED <<fnVars, auxVars, kidsVars>>
  \/ user \notin Uids /\ statusTimeout
       /\ UNCHANGED <<fnVars, auxVars, ratesVars, kidsVars>>
  \/ user \notin Uids /\ ratesStatusTimeout
       /\ UNCHANGED <<fnVars, auxVars, kidsVars>>

SpecAuth == AppInit /\ [][NextAuth]_vars

-----------------------------------------------------------------------------
(* The upserts with their history (SpecHist): the record side of the
   component with two children on one date, hist keeping the store the behaviour began with,
   the patch of every upsert begun, the upserts written, in the order of
   their writes, the keys on which an upsert read between the read and the
   write of another, and the keys of upserts begun while one on another key
   was in flight. *)

\* the children on screen: Ada and a second child
HistKids ==
  Kids \cup { [id |-> "k2", name |-> <<"Bo">>, active |-> TRUE] }

HistInMinutes  == {510}
HistOutMinutes == {690}

\* typed <<In, Out>>, both accepted
HistTypedTimes ==
  { << <<"0", "9", ":", "0", "0">>, <<>> >>,
    << <<"0", "9", ":", "0", "0">>, <<"1", "0", ":", "0", "0">> >> }

HistTypedReason == { <<" ">> }

HistInit ==
  /\ InitRecords
  /\ InitRates
  /\ InitKids
  /\ calc = CalcOff
  /\ records = {}
  /\ hist = [ phase      |-> "on",
              init       |-> store,
              open       |-> << >>,
              log        |-> << >>,
              overlapped |-> {},
              together   |-> {} ]
  /\ patched = FnOff
  /\ summary = FnOff

\* a handler has run up to the first await of its upsert, if it began one
Started ==
  LET new == pending' \ pending
  IN hist' =
       IF new = {} THEN hist
       ELSE LET q == CHOOSE q \in new : TRUE
            IN [ hist EXCEPT
                   !.open = Spread(@, (q.n :> [ id    |-> q.id,
                                                date  |-> q.date,
                                                kid   |-> q.kid,
                                                kind  |-> q.kind,
                                                patch |-> q.patch ])),
                   !.together =
                      @ \cup UNION { {p.id, q.id} :
                                       p \in {p \in pending : p.id # q.id} } ]

\* the read of the upsert p resolves: its key is marked when another upsert
\* on that key has read and not yet written
Read(p) ==
  hist' = [ hist EXCEPT
              !.overlapped =
                 @ \cup { q.id : q \in {q \in pending : /\ q.id = p.id
                                                       /\ q.pc = "setDoc"} } ]

\* the upsert p has left the pending calls, its document written or not
Ended(p, written) ==
  hist' = [ hist EXCEPT
              !.open = [n \in DOMAIN @ \ {p.n} |-> @[n]],
              !.log  = IF written THEN Append(@, hist.open[p.n]) ELSE @ ]

NextHist ==
  \/ \E u \in Uids \cup {NoUser} :
       AuthChanged(u) /\ UNCHANGED <<fnVars, auxVars, ratesVars, kidsVars>>
  \/ \E kid \in HistKids, now \in HistInMinutes :
       checkIn(kid, now) /\ Started
         /\ UNCHANGED <<fnVars, records, ratesVars, kidsVars>>
  \/ \E kid \in HistKids, now \in HistOutMinutes :
       checkOut(kid, now) /\ Started
         /\ UNCHANGED <<fnVars, records, ratesVars, kidsVars>>
  \/ \E kid \in HistKids :
       clearTimes(kid) /\ Started
         /\ UNCHANGED <<fnVars, records, ratesVars, kidsVars>>
  \/ \E kid \in HistKids, et \in HistTypedTimes, er \in HistTypedReason :
       saveManualTimes(kid, et[1], et[2], er) /\ Started
         /\ UNCHANGED <<fnVars, records, ratesVars, kidsVars>>
  \/ \E p \in pending :
       getDocResolves(p) /\ Read(p)
         /\ UNCHANGED <<fnVars, records, ratesVars, kidsVars>>
  \/ \E p \in pending :
       setDocResolves(p) /\ Ended(p, TRUE)
         /\ UNCHANGED <<fnVars, records, ratesVars, kidsVars>>
  \/ \E p \in pending :
       upsertRejects(p) /\ Ended(p, FALSE)
         /\ UNCHANGED <<fnVars, records, ratesVars, kidsVars>>
  \/ statusTimeout /\ UNCHANGED <<fnVars, auxVars, ratesVars, kidsVars>>

SpecHist == HistInit /\ [][NextHist]_vars

-----------------------------------------------------------------------------
(* The reimbursement summaries over drawn records and rate sets
   (SpecSummary).  The dates of these records are sequences of characters,
   as the summaries slice them. *)

MaxRecords == 3   \* records in the drawn snapshot

\* the attendance days of the drawn records
SummaryDates ==
  { <<"2", "0", "2", "3", "-", "1", "2", "-", "3", "1">>,
    <<"2", "0", "2", "4", "-", "0", "3", "-", "0", "1">>,
    <<"2", "0", "2", "4", "-", "0", "3", "-", "1", "5">>,
    <<"2", "0", "2", "4", "-", "0", "4", "-", "0", "1">>,
    <<"2", "0", "2", "5", "-", "0", "1", "-", "0", "2">> }

\* their <<inTime, outTime>>: no meal, breakfast only, morning snack only,
\* lunch only, all four
SummaryTimes ==
  { << <<>>, <<>> >>,
    << nowHHMM(540), nowHHMM(555) >>,
    << nowHHMM(630), nowHHMM(690) >>,
    << nowHHMM(720), nowHHMM(810) >>,
    << nowHHMM(510), <<>> >> }

\* the rate sets the listener can have delivered, in thousandths of a dollar
SummaryRates ==
  { << >>,
    (2024 :> [year |-> 2024, breakfast |-> 2000, snack |-> 1000,
              lunch |-> 3500, updatedAt |-> ServerTimestamp]),
    (2023 :> [year |-> 2023, breakfast |-> 1500, snack |-> 750,
              lunch |-> 3000, updatedAt |-> ServerTimestamp])
      @@ (2024 :> [year |-> 2024, breakfast |-> 2000, snack |-> 1000,
                   lunch |-> 3500, updatedAt |-> ServerTimestamp]) }

\* a stored record of the listed child for day d with the given times
SummaryRecord(d, t) ==
  LET kid == CHOOSE k \in Kids : TRUE IN
    stripUndefined(mergeRecord(
      Spread(defaultRecord(d, kid), [id |-> d \o <<"_", kid.id>>]),
      [inTime |-> t[1], outTime |-> t[2], source |-> "manual",
       editedBy |-> CHOOSE u \in Uids : TRUE]))

\* a.localeCompare(b) < 0 for strings of digits and "-"
CharRank(c) == IF c = "-" THEN 0 ELSE 1 + DigitVal(c)

RECURSIVE localeLess(_, _)
localeLess(a, b) ==
  IF b = <<>> THEN FALSE
  ELSE IF a = <<>> THEN TRUE
  ELSE IF Head(a) # Head(b) THEN CharRank(Head(a)) < CharRank(Head(b))
  ELSE localeLess(Tail(a), Tail(b))

\* the documents of a snapshot ordered by date
RECURSIVE orderByDate(_)
orderByDate(S) ==
  IF S = {} THEN <<>>
  ELSE LET m == CHOOSE x \in S : \A z \in S \ {x} : localeLess(x.date, z.date)
       IN <<m>> \o orderByDate(S \ {m})

yearFromDate(d)  == Number(slice(d, 0, 4))
monthFromDate(d) == slice(d, 0, 7)

\* r.f || 0
OrZero(r, f) == IF f \in DOMAIN r THEN r[f] ELSE 0

\* snacksOf with a seeded fault: the afternoon snack is not counted
snacksOf_morningOnly(r) == OrZero(r, "amSnack")

snacksOf(r) == OrZero(r, "amSnack") + OrZero(r, "pmSnack")

\* the amount of one record under the rates resolved for its year
amountOf(r, rates) ==
  OrZero(r, "breakfast") * OrZero(rates, "breakfast")
    + snacksOf(r) * OrZero(rates, "snack")
    + OrZero(r, "lunch") * OrZero(rates, "lunch")

\* cur with the record's counts and amount added
addToRow(cur, r, rates) ==
  [cur EXCEPT !.breakfasts = @ + OrZero(r, "breakfast"),
              !.snacks     = @ + snacksOf(r),
              !.lunches    = @ + OrZero(r, "lunch"),
              !.total      = @ + amountOf(r, rates)]

\* monthlyRows with a seeded fault: a record replaces the row of its month
RECURSIVE monthlyRows_overwrites(_, _)
monthlyRows_overwrites(recs, map) ==
  IF recs = <<>> THEN map
  ELSE LET r     == Head(recs)
           month == monthFromDate(r.date)
           year  == yearFromDate(r.date).v
           rates == getRatesForYear(year)
           cur   == [ month |-> month, year |-> year, breakfasts |-> 0,
                      snacks |-> 0, lunches |-> 0, total |-> 0,
                      rateYearUsed |-> rates.year ]
       IN monthlyRows_overwrites(Tail(recs),
            Spread(map, (month :> addToRow(cur, r, rates))))

\* the loop of monthlySummary over the records from the first on
RECURSIVE monthlyRows(_, _)
monthlyRows(recs, map) ==
  IF recs = <<>> THEN map
  ELSE LET r     == Head(recs)
           month == monthFromDate(r.date)
           year  == yearFromDate(r.date).v
           rates == getRatesForYear(year)
           cur   == IF month \in DOMAIN map THEN map[month]
                    ELSE [ month |-> month, year |-> year, breakfasts |-> 0,
                           snacks |-> 0, lunches |-> 0, total |-> 0,
                           rateYearUsed |-> rates.year ]
       IN monthlyRows(Tail(recs), Spread(map, (month :> addToRow(cur, r, rates))))

\* the loop of annualSummary
RECURSIVE annualRows(_, _)
annualRows(recs, map) ==
  IF recs = <<>> THEN map
  ELSE LET r     == Head(recs)
           year  == yearFromDate(r.date).v
           rates == getRatesForYear(year)
           cur   == IF year \in DOMAIN map THEN map[year]
                    ELSE [ year |-> year, breakfasts |-> 0, snacks |-> 0,
                           lunches |-> 0, total |-> 0,
                           rateYearUsed |-> rates.year ]
           upd   == [addToRow(cur, r, rates) EXCEPT !.rateYearUsed = rates.year]
       IN annualRows(Tail(recs), Spread(map, (year :> upd)))

\* Array.from(map.values()).sort(by month).map(total: round2(total))
RECURSIVE sortByMonth(_)
sortByMonth(rows) ==
  IF rows = {} THEN <<>>
  ELSE LET m == CHOOSE x \in rows :
                  \A z \in rows \ {x} : localeLess(x.month, z.month)
       IN <<[m EXCEPT !.total = round2(@)]>> \o sortByMonth(rows \ {m})

RECURSIVE sortByYear(_)
sortByYear(rows) ==
  IF rows = {} THEN <<>>
  ELSE LET m == CHOOSE x \in rows : \A z \in rows : x.year <= z.year
       IN <<[m EXCEPT !.total = round2(@)]>> \o sortByYear(rows \ {m})

monthlySummary(recs) ==
  LET map == monthlyRows(recs, << >>)
  IN sortByMonth({map[k] : k \in DOMAIN map})

annualSummary(recs) ==
  LET map == annualRows(recs, << >>)
  IN sortByYear({map[k] : k \in DOMAIN map})

\* the records listener has delivered a snapshot and the rates listener a
\* rate map; the summaries are not computed yet
SummaryInit ==
  /\ InitRecords
  /\ InitKids
  /\ ratesStatus = ""
  /\ ratesWrites = {}
  /\ calc = CalcOff
  /\ InitAux
  /\ patched = FnOff
  /\ \E rs \in SummaryRates :
       ratesStore = rs /\ ratesByYear = rs
  /\ \E days \in SUBSET SummaryDates :
       /\ Cardinality(days) <= MaxRecords
       /\ \E t \in [days -> SummaryTimes] :
            summary = [ phase   |-> "input",
                        records |-> orderByDate(
                                      {SummaryRecord(d, t[d]) : d \in days}) ]

\* the two useMemo bodies run
Summarise ==
  /\ summary.phase = "input"
  /\ summary' = [ phase   |-> "done",
                  records |-> summary.records,
                  monthly |-> monthlySummary(summary.records),
                  annual  |-> annualSummary(summary.records) ]
  /\ UNCHANGED <<recVars, ratesVars, kidsVars, auxVars, calc, patched>>

\* records.map(...) of exportExcel: the rows of the Records sheet
exportRows(recs) ==
  [ i \in 1..Len(recs) |->
      LET r     == recs[i]
          rates == getRatesForYear(yearFromDate(r.date).v)
      IN Spread(r, [ snacks        |-> snacksOf(r),
                     reimbursement |-> round2(amountOf(r, rates)),
                     rateYearUsed  |-> rates.year ]) ]

\* exportExcel: the rows handed to the three sheets of the workbook (their
\* layout in cells is not modelled)
exportExcel ==
  /\ summary.phase = "done"
  /\ "workbook" \notin DOMAIN summary
  /\ summary' = Spread(summary,
                   [ workbook |-> [ Records |-> exportRows(summary.records),
                                    Monthly |-> summary.monthly,
                                    Annual  |-> summary.annual ] ])
  /\ UNCHANGED <<recVars, ratesVars, kidsVars, auxVars, calc, patched>>

NextSummary == Summarise \/ exportExcel

SpecSummary == SummaryInit /\ [][NextSummary]_vars

-----------------------------------------------------------------------------
(* The merge of upsertRecord on drawn base records and on the patches the
   four handlers build (SpecPatch), user?.uid being undefined when nobody is
   signed in *)

\* what getDoc can return: a snapshot of a document that does not exist, or
\* of a record left by a check-in, by a manual edit with a reason, or by a
\* clear
PatchBases ==
  { [exists |-> FALSE] } \cup
  { [ exists |-> TRUE,
      data   |-> stripUndefined(mergeRecord(defaultRecord(Today, kid), pt)) ] :
      kid \in Kids,
      pt \in { checkInPatch(nowHHMM(510), u) : u \in Uids } \cup
             { manualPatch(nowHHMM(540), nowHHMM(555), <<"late">>, u) :
                 u \in Uids } \cup
             { clearPatch(u) : u \in Uids } }

\* the <<inTrim, outTrim, reasonTrim>> of accepted manual edits
PatchForms ==
  { << nowHHMM(540), <<>>, <<>> >>,
    << nowHHMM(540), nowHHMM(555), <<>> >>,
    << nowHHMM(540), nowHHMM(555), <<"late", " ", "pickup">> >> }

\* the patches of checkIn, checkOut, clearTimes and saveManualTimes
PatchesBuilt ==
  LET us == Uids \cup {NoUser} IN
    { [kind |-> "checkIn", patch |-> checkInPatch(nowHHMM(m), u)] :
        m \in ClockMinutes, u \in us } \cup
    { [kind |-> "checkOut", patch |-> checkOutPatch(nowHHMM(m), u)] :
        m \in ClockMinutes, u \in us } \cup
    { [kind |-> "clear", patch |-> clearPatch(u)] : u \in us } \cup
    { [kind |-> "manual", patch |-> manualPatch(f[1], f[2], f[3], u)] :
        f \in PatchForms, u \in us }

PatchInit ==
  /\ InitRecords
  /\ InitRates
  /\ InitKids
  /\ calc = CalcOff
  /\ InitAux
  /\ summary = FnOff
  /\ \E b \in PatchBases, pb \in PatchesBuilt :
       patched = [phase |-> "input", existing |-> b, kind |-> pb.kind,
                  patch |-> pb.patch]

\* lines 221-248 of upsertRecord on the drawn base and patch
PatchApply ==
  /\ patched.phase = "input"
  /\ LET kid  == CHOOSE k \in Kids : TRUE
         base == IF patched.existing.exists THEN patched.existing.data
                 ELSE defaultRecord(Today, kid)
     IN patched' = [ phase   |-> "done",
                     base    |-> base,
                     kind    |-> patched.kind,
                     patch   |-> patched.patch,
                     cleaned |-> stripUndefined(patched.patch),
                     doc     |-> stripUndefined(
                                   mergeRecord(base, patched.patch)) ]
  /\ UNCHANGED <<recVars, ratesVars, kidsVars, auxVars, calc, summary>>

NextPatch == PatchApply

SpecPatch == PatchInit /\ [][NextPatch]_vars

-----------------------------------------------------------------------------
(* Properties of calcMeals (SpecCalc) *)

\* a clock string as the properties mean it: two digits, a colon, two
\* digits, denoting a minute of the day below 1440
MinutesOf(t) ==
  (10 * DigitVal(t[1]) + DigitVal(t[2])) * 60
    + 10 * DigitVal(t[4]) + DigitVal(t[5])

ClockString(t) ==
  /\ Len(t) = 5
  /\ t[3] = ":"
  /\ \A i \in {1, 2, 4, 5} : IsDigit(t[i])
  /\ MinutesOf(t) < 1440

CalcDone == calc.phase \in {"once", "twice"}
CalcIn   == Field(calc.r, "inTime")
CalcOut  == Field(calc.r, "outTime")

Bit(b) == IF b THEN 1 ELSE 0

\* C2: a record whose inTime is empty, absent or not a valid clock string
\* comes back from calcMeals unchanged in every field, whatever its outTime.
C2_InvalidInTimeUnchanged ==
  (CalcDone /\ ~ClockString(CalcIn)) => calc.out1 = calc.r

\* C3: with a valid inTime and an outTime that is empty, absent or not a
\* valid clock string, the flags are those of an interval ending at 1440:
\* 1 for every meal at or after inTime, 0 for every earlier one.
C3_OpenEndIsEndOfDay ==
  (CalcDone /\ ClockString(CalcIn) /\ ~ClockString(CalcOut)) =>
    Flags(calc.out1) =
      [ breakfast |-> Bit(MinutesOf(CalcIn) <= 570),
        amSnack   |-> Bit(MinutesOf(CalcIn) <= 660),
        lunch     |-> Bit(MinutesOf(CalcIn) <= 780),
        pmSnack   |-> Bit(MinutesOf(CalcIn) <= 900) ]

\* C4: for valid inTime and outTime, breakfast is 1 exactly when
\* in <= 09:30 and out >= 09:00; (09:00, 09:15) gives 1, (09:31, 10:00)
\* gives 0, (08:00, 09:00) gives 1.
C4_BreakfastWindow ==
  (CalcDone /\ ClockString(CalcIn) /\ ClockString(CalcOut)) =>
    /\ calc.out1.breakfast =
         Bit(MinutesOf(CalcIn) <= 570 /\ MinutesOf(CalcOut) >= 540)
    /\ (CalcIn = nowHHMM(540) /\ CalcOut = nowHHMM(555))
         => calc.out1.breakfast = 1
    /\ (CalcIn = nowHHMM(571) /\ CalcOut = nowHHMM(600))
         => calc.out1.breakfast = 0
    /\ (CalcIn = nowHHMM(480) /\ CalcOut = nowHHMM(540))
         => calc.out1.breakfast = 1

\* the interval (08:00, 09:00) has been given breakfast although the input
\* record carried none
C4_Witness ==
  /\ CalcDone
  /\ CalcIn = nowHHMM(480) /\ CalcOut = nowHHMM(540)
  /\ calc.r.breakfast = 0
  /\ calc.out1.breakfast = 1

\* C5: for valid inTime and outTime, amSnack, lunch and pmSnack are 1
\* exactly when in <= instant <= out for 11:00, 13:00 and 15:00;
\* (10:59, 11:00) gives amSnack 1 and (11:01, 12:00) gives amSnack 0.
C5_InstantMeals ==
  (CalcDone /\ ClockString(CalcIn) /\ ClockString(CalcOut)) =>
    /\ calc.out1.amSnack =
         Bit(MinutesOf(CalcIn) <= 660 /\ MinutesOf(CalcOut) >= 660)
    /\ calc.out1.lunch =
         Bit(MinutesOf(CalcIn) <= 780 /\ MinutesOf(CalcOut) >= 780)
    /\ calc.out1.pmSnack =
         Bit(MinutesOf(CalcIn) <= 900 /\ MinutesOf(CalcOut) >= 900)
    /\ (CalcIn = nowHHMM(659) /\ CalcOut = nowHHMM(660))
         => calc.out1.amSnack = 1
    /\ (CalcIn = nowHHMM(661) /\ CalcOut = nowHHMM(720))
         => calc.out1.amSnack = 0

\* (10:59, 11:00) has been given the morning snack, and only that meal
C5_Witness ==
  /\ CalcDone
  /\ CalcIn = nowHHMM(659) /\ CalcOut = nowHHMM(660)
  /\ calc.r.amSnack = 0
  /\ Flags(calc.out1) =
       [breakfast |-> 0, amSnack |-> 1, lunch |-> 0, pmSnack |-> 0]

\* C6: for valid (in, out) with in <= out, calcMeals(calcMeals(r)) equals
\* calcMeals(r) in every field, and calcMeals(r) is the same record whatever
\* flags r carried.
C6_Idempotent ==
  (ClockString(CalcIn) /\ ClockString(CalcOut)
     /\ MinutesOf(CalcIn) <= MinutesOf(CalcOut)) =>
    /\ CalcDone => calc.out1 = calc.altOut
    /\ calc.phase = "twice" => calc.out2 = calc.out1

\* calcMeals has been applied twice to a record whose flags it changed, and
\* once to the same times carrying other flags
C6_Witness ==
  /\ calc.phase = "twice"
  /\ ClockString(CalcIn) /\ ClockString(CalcOut)
  /\ MinutesOf(CalcIn) <= MinutesOf(CalcOut)
  /\ Flags(calc.r) # Flags(calc.out1)
  /\ Flags(calc.alt) # Flags(calc.r)
  /\ Flags(calc.out1) # [f \in FlagNames |-> 0]

-----------------------------------------------------------------------------
(* Properties of the stored records (Spec) *)

NoMeals == [f \in FlagNames |-> 0]

\* the meal flags of an attendance interval, from its minutes of the day;
\* an empty outTime ends the interval at 1440
MealsOf(in, out) ==
  LET i == MinutesOf(in)
      o == IF out = <<>> THEN 1440 ELSE MinutesOf(out)
  IN [ breakfast |-> Bit(i <= 570 /\ o >= 540),
       amSnack   |-> Bit(i <= 660 /\ o >= 660),
       lunch     |-> Bit(i <= 780 /\ o >= 780),
       pmSnack   |-> Bit(i <= 900 /\ o >= 900) ]

\* C1: every stored record has the meal flags its own stored times give:
\* those of the eligibility computation when inTime is non-empty, all 0 when
\* inTime is empty; also under interleaved reads and writes of upserts.
C1_FlagsFollowTimes ==
  \A id \in DOMAIN store :
    LET r == store[id] IN
      /\ r.inTime = <<>> \/ ClockString(r.inTime)
      /\ r.outTime = <<>> \/ ClockString(r.outTime)
      /\ Flags(r) = IF r.inTime = <<>> THEN NoMeals
                    ELSE MealsOf(r.inTime, r.outTime)

\* a record with meals served has been cleared while a check-out that read
\* it before the clear is still to write
C1_Witness ==
  \E id \in DOMAIN store :
    /\ store[id].editReason = ClearedReason
    /\ Flags(store[id]) = NoMeals
    /\ \E p \in pending :
         /\ p.pc = "setDoc" /\ p.id = id /\ p.kind = "checkOut"
         /\ Flags(p.doc) # NoMeals

\* the typed times, once trimmed, that the manual edit must turn down
Rejected(in, out) ==
  \/ in = <<>>
  \/ ~ClockString(in)
  \/ out # <<>> /\ ~ClockString(out)
  \/ out # <<>> /\ ClockString(out) /\ MinutesOf(out) < MinutesOf(in)

\* C8: a manual edit whose typed inTime is empty or malformed, or whose
\* typed outTime is non-empty and malformed or earlier than inTime, starts
\* no store access and changes no stored record (the typed times are taken
\* with surrounding blanks trimmed off, as the form does); an outTime equal
\* to inTime is not turned down: the upsert starts.
C8_RejectedEditTouchesNothing ==
  [][ \A kid \in Kids, et \in TypedTimes, er \in TypedReason :
        saveManualTimes(kid, et[1], et[2], er) =>
          /\ Rejected(trim(et[1]), trim(et[2]))
               => (store' = store /\ pending' = pending /\ alertMsg' # "")
          /\ (ClockString(trim(et[1])) /\ trim(et[2]) = trim(et[1]))
               => (\E p \in pending' \ pending :
                     p.kind = "manual" /\ p.patch.outTime = p.patch.inTime) ]_vars

\* a manual edit has been turned down for an outTime before its inTime and
\* nothing is in flight nor stored beyond what there was
C8_Witness ==
  /\ alertMsg = AlertOutFirst
  /\ opsStarted = 1
  /\ pending = {}
  /\ store \in InitStores

\* C9: the write of a Clear leaves, whatever was stored under the key
\* before, a record with empty times, the four flags 0, source manual and
\* editReason "Cleared times".
C9_ClearResets ==
  [][ \A p \in pending :
        (p.kind = "clear" /\ setDocResolves(p)) =>
          /\ p.id \in DOMAIN store'
          /\ store'[p.id].inTime = <<>>
          /\ store'[p.id].outTime = <<>>
          /\ Flags(store'[p.id]) = NoMeals
          /\ store'[p.id].source = "manual"
          /\ store'[p.id].editReason = ClearedReason ]_vars

\* a Clear has completed on the record of a child who was checked in
C9_Witness ==
  /\ store # << >>
  /\ \A id \in DOMAIN store :
       /\ store[id].date = Today
       /\ store[id].inTime = <<>>
       /\ store[id].editReason = ClearedReason
  /\ saveStatus = "Cleared"
  /\ opsStarted = 1

\* a record as a Clear leaves it
Cleared(r) ==
  /\ r.inTime = <<>> /\ r.outTime = <<>>
  /\ Flags(r) = NoMeals
  /\ r.editReason = ClearedReason

\* C10 as stated: the flags of a cleared record become non-zero only by
\* the write of an operation that supplies a new inTime (check-in, manual
\* edit).
C10_OnlyNewInTimeSetsFlags ==
  [][ \A id \in DOMAIN store :
        (Cleared(store[id]) /\ Flags(store'[id]) # NoMeals) =>
          \E p \in pending :
            /\ p.id = id /\ p.kind \in {"checkIn", "manual"}
            /\ setDocResolves(p) ]_vars

\* C10 amended: while a stored record has an empty inTime (cleared, and
\* checked out any number of times since) its flags are 0, every check-out
\* and clear that reads it then prepares a write with empty inTime and flags
\* 0, and its flags become non-zero only by a write that carries a valid
\* inTime: of a check-in, of a manual edit, or of a check-out that read the
\* record before the clear.
C10_FlagsStayZeroUntilInTime ==
  [][ \A id \in DOMAIN store :
        store[id].inTime = <<>> =>
          /\ Flags(store[id]) = NoMeals
          /\ \A q \in pending' \ pending :
               (q.id = id /\ q.pc = "setDoc" /\ q.kind \in {"checkOut", "clear"})
                 => (q.doc.inTime = <<>> /\ Flags(q.doc) = NoMeals)
          /\ Flags(store'[id]) # NoMeals =>
               \E p \in pending :
                 /\ p.id = id /\ p.pc = "setDoc"
                 /\ p.kind \in {"checkIn", "manual", "checkOut"}
                 /\ ClockString(p.doc.inTime)
                 /\ setDocResolves(p) ]_vars

\* a check-out has read a cleared record and prepared its write
C10_Witness ==
  \E id \in DOMAIN store :
    /\ Cleared(store[id])
    /\ \E p \in pending :
         /\ p.id = id /\ p.pc = "setDoc" /\ p.kind = "checkOut"
         /\ p.doc.inTime = <<>> /\ p.doc.outTime # <<>>
         /\ Flags(p.doc) = NoMeals

-----------------------------------------------------------------------------
(* Properties of the rate resolver (SpecRates) *)

ZeroRates(y) == [year |-> y, breakfast |-> 0, snack |-> 0, lunch |-> 0]

\* C7: getRatesForYear(y) is the rate set of y when there is one, otherwise
\* that of the largest year below y that has one, otherwise the zero set
\* stamped y; never the set of a later year.  With rates for {2022, 2024}:
\* 2023 gives the 2022 set, 2021 the zero set, 2024 the 2024 set.
C7_NearestPriorYear ==
  LET known == DOMAIN ratesByYear IN
    /\ \A y \in QueryYears :
         LET prior == {k \in known : k <= y} IN
           /\ y \in known => getRatesForYear(y) = ratesByYear[y]
           /\ (y \notin known /\ prior # {}) =>
                getRatesForYear(y) =
                  ratesByYear[CHOOSE k \in prior : \A j \in prior : j <= k]
           /\ prior = {} => getRatesForYear(y) = ZeroRates(y)
           /\ getRatesForYear(y).year <= y
    /\ known = {2022, 2024} =>
         /\ getRatesForYear(2023) = ratesByYear[2022]
         /\ getRatesForYear(2021) = ZeroRates(2021)
         /\ getRatesForYear(2024) = ratesByYear[2024]

\* the snapshot has delivered different rate sets for 2022 and 2024 only
C7_Witness ==
  /\ DOMAIN ratesByYear = {2022, 2024}
  /\ ratesByYear[2022].breakfast # ratesByYear[2024].breakfast
  /\ getRatesForYear(2023).year = 2022

-----------------------------------------------------------------------------
(* Properties of the upsert: what it writes (Spec) *)

\* the record of a day and child that has none yet
EmptyRecord(d, kid) ==
  [ id |-> <<d, "_", kid.id>>, date |-> d, kidId |-> kid.id,
    kidName |-> kid.name, inTime |-> <<>>, outTime |-> <<>>,
    breakfast |-> 0, amSnack |-> 0, lunch |-> 0, pmSnack |-> 0,
    source |-> "auto", editReason |-> <<>> ]

\* what an upsert that is about to read would read
BaseRead(p) ==
  IF p.id \in DOMAIN store THEN store[p.id] ELSE EmptyRecord(p.date, p.kid)

\* the document the upsert with ticket n hands to setDoc in the next state
Prepared(n) == CHOOSE q \in pending' : q.n = n

\* C11: the document an upsert writes is the record it read (the default
\* record of the day and child when there was none) merged with the patch:
\* every field the patch names has the patch's value, every other field
\* except the four meal flags and updatedAt has the value read; a check-in
\* leaves outTime and a check-out leaves inTime as read.  That document is
\* what the write stores.  (The step in which an upsert goes from its read
\* to its write is the step in which its read resolves.)
C11_PatchOverBase ==
  [][ \A p \in pending :
        /\ ( /\ p.pc = "getDoc"
             /\ \E q \in pending' : q.n = p.n /\ q.pc = "setDoc" ) =>
             LET base == BaseRead(p)
                 doc  == Prepared(p.n).doc
             IN /\ Prepared(p.n).pc = "setDoc"
                /\ \A f \in DOMAIN p.patch :
                     f \in DOMAIN doc /\ doc[f] = p.patch[f]
                /\ \A f \in DOMAIN base \ (DOMAIN p.patch \cup FlagNames
                                             \cup {"updatedAt"}) :
                     f \in DOMAIN doc /\ doc[f] = base[f]
                /\ p.kind = "checkIn" => doc.outTime = base.outTime
                /\ p.kind = "checkOut" => doc.inTime = base.inTime
        /\ (p.pc = "setDoc" /\ setDocResolves(p)) =>
             (p.id \in DOMAIN store' /\ store'[p.id] = p.doc)
    ]_vars

\* a check-out has read a record checked in at 08:30 and is about to write
\* it with that inTime and its own outTime
C11_Witness ==
  \E p \in pending :
    /\ p.kind = "checkOut"
    /\ p.pc = "setDoc"
    /\ p.id \in DOMAIN store
    /\ p.doc.inTime = nowHHMM(510)
    /\ p.doc.outTime = nowHHMM(690)
    /\ p.doc.editReason = CheckOutReason

\* C12: the upsert has no transactional guard.  A write stores the document
\* prepared when its read resolved, whatever has been written to the same
\* key since: a field written in between is replaced by the value read
\* before it; nothing is detected, nobody is alerted, nothing is retried.
\* So of a check-in and a check-out of one child and day that both read
\* before either writes, the later write leaves a record without the
\* earlier write's field.
C12_LastWriteWins ==
  [][ \A p \in pending :
        setDocResolves(p) =>
          /\ store' = [id \in DOMAIN store \cup {p.id} |->
                         IF id = p.id THEN p.doc ELSE store[id]]
          /\ \A f \in {"inTime", "outTime"} :
               (p.id \in DOMAIN store /\ store[p.id][f] # p.doc[f]) =>
                 store'[p.id][f] = p.doc[f]
          /\ alertMsg' = alertMsg
          /\ pending' = pending \ {p}
    ]_vars

\* the check-in and the check-out of one child both read before any record
\* existed; the check-in has written its 08:30, and the check-out is about
\* to write the document it prepared, whose inTime is empty
C12_Witness ==
  \E p \in pending, kid \in Kids :
    /\ p.kind = "checkOut"
    /\ p.pc = "setDoc"
    /\ p.id = <<date, "_", kid.id>>
    /\ p.doc.inTime = <<>>
    /\ p.doc.outTime = nowHHMM(690)
    /\ p.id \in DOMAIN store
    /\ store[p.id].inTime = nowHHMM(510)
    /\ store[p.id].editReason = CheckInReason
    /\ alertMsg = ""

-----------------------------------------------------------------------------
(* Properties of the component as a whole (SpecApp) *)

\* the step leaves the local copies of the collections as they were
LocalStateKept ==
  /\ kids' = kids
  /\ ratesByYear' = ratesByYear

\* the step ends with a failure notice on screen and nothing thrown past
\* the handler
FailureSurfaced ==
  /\ alertMsg' # ""
  /\ escaped' = escaped

\* C13: for check-in, check-out, clear, manual edit, save-rates, add-child
\* and deactivate-child, a failing store call is caught inside the
\* operation and shown to the user as a notice, does not escape, and leaves
\* the local kids and rates state as it was.
C13_FailuresCaught ==
  [][ /\ \A p \in pending :
           upsertRejects(p) => (FailureSurfaced /\ LocalStateKept)
      /\ \A w \in ratesWrites :
           ratesSetDocRejects(w) => (FailureSurfaced /\ LocalStateKept)
      /\ \A w \in kidWrites :
           kidWriteRejects(w) => (FailureSurfaced /\ LocalStateKept)
    ]_vars

\* the step issues no getDoc: no upsert begins
NoUpsertBegins == \A q \in pending' \ pending : q.pc # "getDoc"

\* the step issues no setDoc / updateDoc
NoWriteIssued ==
  /\ \A q \in pending' \ pending : q.pc # "setDoc"
  /\ ratesWrites' \subseteq ratesWrites
  /\ kidWrites' \subseteq kidWrites

\* the step delivers no snapshot to the component
NoSnapshotDelivered ==
  /\ kids' = kids
  /\ ratesByYear' = ratesByYear

-----------------------------------------------------------------------------
(* Properties of the summaries (SpecSummary) *)

SummaryDone == summary.phase = "done"

\* the positions of the drawn records, and the sum of a number per position
RecordAt(i) == summary.records[i]
Positions   == 1..Len(summary.records)

RECURSIVE SumOver(_)
SumOver(f) ==
  IF DOMAIN f = {} THEN 0
  ELSE LET i == CHOOSE j \in DOMAIN f : TRUE
       IN f[i] + SumOver([j \in DOMAIN f \ {i} |-> f[j]])

StartsWith(d, prefix) ==
  Len(d) >= Len(prefix) /\ SubSeq(d, 1, Len(prefix)) = prefix

YearOf(d) ==
  1000 * DigitVal(d[1]) + 100 * DigitVal(d[2]) + 10 * DigitVal(d[3])
    + DigitVal(d[4])

\* the rate set of year y: its own, else that of the nearest earlier year,
\* else all zero
RatesOf(y) ==
  LET prior == {k \in DOMAIN ratesByYear : k <= y} IN
    IF prior = {} THEN [breakfast |-> 0, snack |-> 0, lunch |-> 0]
    ELSE ratesByYear[CHOOSE k \in prior : \A j \in prior : j <= k]

AmountOf(r) ==
  r.breakfast * RatesOf(YearOf(r.date)).breakfast
    + (r.amSnack + r.pmSnack) * RatesOf(YearOf(r.date)).snack
    + r.lunch * RatesOf(YearOf(r.date)).lunch

\* row carries the sums over the records at the positions in I
RowSums(row, I) ==
  /\ row.breakfasts = SumOver([i \in I |-> RecordAt(i).breakfast])
  /\ row.snacks = SumOver([i \in I |-> RecordAt(i).amSnack + RecordAt(i).pmSnack])
  /\ row.lunches = SumOver([i \in I |-> RecordAt(i).lunch])
  /\ row.total = SumOver([i \in I |-> AmountOf(RecordAt(i))])

\* C15: the monthly row of month M carries the sums of breakfast, amSnack +
\* pmSnack and lunch over exactly the records whose date starts with M, and
\* as total the sum of their amounts under the rates resolved for each
\* record's year; there is one row per month that has a record.  The annual
\* row of year Y is the same over the records dated in Y.  One breakfast at
\* 2.00 and one lunch at 3.50 in a month total 5.50.
C15_SummariesAreSums ==
  SummaryDone =>
    LET months == {SubSeq(RecordAt(i).date, 1, 7) : i \in Positions}
        years  == {YearOf(RecordAt(i).date) : i \in Positions}
    IN /\ Len(summary.monthly) = Cardinality(months)
       /\ {summary.monthly[k].month : k \in 1..Len(summary.monthly)} = months
       /\ \A k \in 1..Len(summary.monthly) :
            LET row == summary.monthly[k] IN
              /\ RowSums(row, {i \in Positions :
                                 StartsWith(RecordAt(i).date, row.month)})
              /\ ( /\ row.breakfasts = 1 /\ row.lunches = 1 /\ row.snacks = 0
                   /\ RatesOf(row.year).breakfast = 2000
                   /\ RatesOf(row.year).lunch = 3500 ) => row.total = 5500
       /\ Len(summary.annual) = Cardinality(years)
       /\ {summary.annual[k].year : k \in 1..Len(summary.annual)} = years
       /\ \A k \in 1..Len(summary.annual) :
            LET row == summary.annual[k] IN
              RowSums(row, {i \in Positions :
                              YearOf(RecordAt(i).date) = row.year})

\* March 2024 has two records, one with breakfast only and one with lunch
\* only, at 2.00 and 3.50, and a record of another month exists; the March
\* row totals 5.50
C15_Witness ==
  /\ SummaryDone
  /\ Len(summary.records) = 3
  /\ \E k \in 1..Len(summary.monthly) :
       LET row == summary.monthly[k] IN
         /\ row.month = <<"2", "0", "2", "4", "-", "0", "3">>
         /\ Cardinality({i \in Positions :
                           StartsWith(RecordAt(i).date, row.month)}) = 2
         /\ row.breakfasts = 1 /\ row.lunches = 1 /\ row.snacks = 0
         /\ row.total = 5500

\* C16: no operation removes an attendance record: a record that is in the
\* store is in the store after every step, whether the step belongs to a
\* check-in, check-out, clear, manual edit, deactivate-child or save-rates.
C16_RecordsPersist ==
  [][ \A id \in DOMAIN store : id \in DOMAIN store' ]_vars

\* a child's record has been cleared and the child deactivated; the record
\* is there
C16_Witness ==
  \E id \in DOMAIN store, k \in DOMAIN kidsStore :
    /\ store[id].kidId = k
    /\ store[id].editReason = ClearedReason
    /\ store[id].inTime = <<>>
    /\ ~kidsStore[k].active

\* C17: a child document is created active, is never removed, and its
\* active flag only goes from true to false: an inactive child is inactive
\* after every step.  Adding or deactivating a child changes no attendance
\* record and no rate set.
C17_KidsOnlyDeactivate ==
  [][ /\ \A k \in DOMAIN kidsStore :
           /\ k \in DOMAIN kidsStore'
           /\ ~kidsStore[k].active => ~kidsStore'[k].active
      /\ \A k \in DOMAIN kidsStore' \ DOMAIN kidsStore : kidsStore'[k].active
      /\ (kidsStore' # kidsStore \/ kidWrites' # kidWrites) =>
           (store' = store /\ ratesStore' = ratesStore)
    ]_vars

\* a child has been added and is active, another has been deactivated, and
\* a record of the deactivated child is in the store
C17_Witness ==
  \E k \in DOMAIN kidsStore, j \in DOMAIN kidsStore, id \in DOMAIN store :
    /\ k \notin DOMAIN KidDocs
    /\ kidsStore[k].active
    /\ kidsStore[k].name = <<"Bo">>
    /\ ~kidsStore[j].active
    /\ store[id].kidId = j

\* C18: every attendance record is stored under the key date "_" childId
\* and carries that key as id and its parts as date and kidId, so there is
\* at most one record per day and child; an upsert in flight addresses the
\* document of its day and child.
C18_KeyedByDateAndKid ==
  /\ \A id \in DOMAIN store :
       /\ id = <<store[id].date, "_", store[id].kidId>>
       /\ store[id].id = id
  /\ \A a \in DOMAIN store, b \in DOMAIN store :
       (store[a].date = store[b].date /\ store[a].kidId = store[b].kidId)
         => a = b
  /\ \A p \in pending :
       /\ p.pc = "getDoc" => p.id = <<p.date, "_", p.kid.id>>
       /\ p.pc = "setDoc" =>
            (p.doc.id = p.id /\ p.id = <<p.doc.date, "_", p.doc.kidId>>)

\* the child has a record for each of two days, the second created by a
\* check-in after the date was changed
C18_Witness ==
  /\ Cardinality(DOMAIN store) = 2
  /\ \E id \in DOMAIN store :
       store[id].date # Today /\ store[id].editReason = CheckInReason

-----------------------------------------------------------------------------
(* Properties of the merge (SpecPatch) *)

PatchDone == patched.phase = "done"

\* the fields of obj that hold undefined
UndefinedFields(obj) ==
  { f \in DOMAIN obj :
      \/ f = "editedBy" /\ obj[f] = UndefinedUid
      \/ f \in {"inTime", "outTime"} /\ obj[f] = Undefined }

\* C19: the document upsertRecord hands to the store has no field whose
\* value is undefined.  A field the patch leaves undefined is left out of
\* the write: the document has the base's value for it, or no such field
\* when the base has none.  This for the patches of check-in, check-out,
\* clear and manual edit.
C19_NoUndefinedWritten ==
  PatchDone =>
    /\ UndefinedFields(patched.doc) = {}
    /\ \A f \in UndefinedFields(patched.patch) :
         IF f \in DOMAIN patched.base
         THEN f \in DOMAIN patched.doc /\ patched.doc[f] = patched.base[f]
         ELSE f \notin DOMAIN patched.doc
    /\ \A f \in DOMAIN patched.patch \ UndefinedFields(patched.patch) :
         f \in DOMAIN patched.doc /\ patched.doc[f] = patched.patch[f]

\* a check-out patch built with nobody signed in, merged over a record a
\* signed-in user checked in: the document keeps that user as editedBy
C19_Witness ==
  /\ PatchDone
  /\ patched.kind = "checkOut"
  /\ patched.patch.editedBy = UndefinedUid
  /\ "editedBy" \in DOMAIN patched.doc
  /\ patched.doc.editedBy \in Uids
  /\ patched.doc.outTime = patched.patch.outTime

\* the year or one of the typed rates is not acceptable
BadRatesInput(y, r) ==
  \/ y \notin 2000..2100
  \/ \E i \in 1..3 : r[i].k # "num" \/ r[i].v < 0

\* an amount in thousandths of a dollar to the nearest cent, halves up
ToCents(n) ==
  LET down == n - (n % 10) IN IF n - down >= 5 THEN down + 10 ELSE down

\* C20: save-rates with a year outside 2000..2100 or a rate that is not a
\* number or is negative issues no write and leaves every stored rate set
\* as it was; otherwise it issues one write, of the document keyed by the
\* year, carrying the year and the three rates rounded to cents.  When that
\* write is stored it replaces the rate set of that year and no other, and
\* nothing else ever changes a stored rate set.
C20_SaveRatesValidated ==
  [][ /\ \A y \in TypedYears, r \in TypedRates :
           saveRatesForYear(y, r[1], r[2], r[3]) =>
             /\ ratesStore' = ratesStore
             /\ IF BadRatesInput(y, r)
                THEN ratesWrites' = ratesWrites
                ELSE \E w \in ratesWrites' \ ratesWrites :
                       /\ ratesWrites' = ratesWrites \cup {w}
                       /\ w.id = y
                       /\ w.payload.year = y
                       /\ w.payload.breakfast = ToCents(r[1].v)
                       /\ w.payload.snack = ToCents(r[2].v)
                       /\ w.payload.lunch = ToCents(r[3].v)
      /\ \A w \in ratesWrites :
           ratesSetDocResolves(w) =>
             ratesStore' = [y \in DOMAIN ratesStore \cup {w.id} |->
                              IF y = w.id THEN w.payload ELSE ratesStore[y]]
      /\ ratesStore' # ratesStore =>
           \E w \in ratesWrites : ratesSetDocResolves(w)
    ]_vars

\* one save was rejected with the validation alert, another has stored
\* 2.504 / 0.996 / 3.50 as 2.50 / 1.00 / 3.50 under its year
C20_Witness ==
  /\ alertMsg = AlertBadRates
  /\ \E y \in DOMAIN ratesStore :
       /\ ratesStore[y].year = y
       /\ ratesStore[y].breakfast = 2500
       /\ ratesStore[y].snack = 1000
       /\ ratesStore[y].lunch = 3500

\* C21: the local kids, records and rates change only in a step that
\* delivers a snapshot, and after it they are the whole contents of the
\* collection; no handler and no store call resolving for a handler changes
\* them, before or after its write.
C21_LocalStateFromSnapshots ==
  [][ /\ kids' # kids =>
           (unsubKidsSnapshot
              /\ kids' = {kidsStore[id] : id \in DOMAIN kidsStore})
      /\ records' # records =>
           (unsubRecsSnapshot
              /\ records' = {store[id] : id \in DOMAIN store})
      /\ ratesByYear' # ratesByYear =>
           (unsubRatesSnapshot
              /\ DOMAIN ratesByYear' = DOMAIN ratesStore
              /\ \A y \in DOMAIN ratesStore : ratesByYear'[y] = ratesStore[y])
    ]_vars

\* a check-out has been written and the records listener has delivered it:
\* the local records are the stored ones; the local copy was behind the
\* store until then
C21_Witness ==
  /\ records # {}
  /\ records = {store[id] : id \in DOMAIN store}
  /\ \E r \in records : r.editReason = CheckOutReason
  /\ kids # {}
  /\ pending = {}

\* an upsert holds ticket n
InFlight(n) == \E p \in pending : p.n = n

\* C22: an upsert that has begun is never dropped: it leaves the pending
\* calls only by its write being stored or by its failure notice being
\* shown, whatever else happens in between; and, the store answering every
\* call, every upsert in flight does leave them.
C22_UpsertsFinish ==
  /\ [][ \A p \in pending :
           (\A q \in pending' : q.n # p.n \/ q.pc = "getDoc") =>
             \/ p.pc = "getDoc" /\ p \in pending'
             \/ p.pc = "setDoc" /\ p.id \in DOMAIN store'
                  /\ store'[p.id] = p.doc
             \/ alertMsg' = failureAlert(p.kind)
       ]_vars
  /\ \A n \in 1..MaxInFlight : InFlight(n) ~> ~InFlight(n)

\* both upserts have finished after the user signed out: one stored its
\* check-out, the other was answered with a failure and showed its notice
C22_Witness ==
  /\ pending = {}
  /\ opsStarted = MaxOps
  /\ user = NoUser
  /\ \E id \in DOMAIN store : store[id].editReason = CheckOutReason
  /\ alertMsg = failureAlert("checkIn")


-----------------------------------------------------------------------------
(* Properties of the manual edit (Spec) *)

\* C23: a manual edit that passes validation hands upsertRecord the typed In
\* and Out values trimmed, source manual, and the typed reason only when it
\* is non-blank; the document its upsert then prepares has those times,
\* source manual, the meal flags those times give, and as editReason the
\* typed reason or else the editReason of the record read ("" when there was
\* none); that document is what the successful write stores.
C23_ManualEditWrites ==
  [][ /\ \A q \in pending' \ pending :
           (q.kind = "manual" /\ q.pc = "getDoc") =>
             \E et \in TypedTimes, er \in TypedReason :
               /\ q.patch.inTime = trim(et[1])
               /\ q.patch.outTime = trim(et[2])
               /\ q.patch.source = "manual"
               /\ IF trim(er) # <<>>
                  THEN Field(q.patch, "editReason") = trim(er)
                  ELSE "editReason" \notin DOMAIN q.patch
      /\ \A p \in pending :
           /\ ( /\ p.kind = "manual"
                /\ p.pc = "getDoc"
                /\ \E q \in pending' : q.n = p.n /\ q.pc = "setDoc" ) =>
                LET doc == Prepared(p.n).doc
                IN /\ doc.inTime = p.patch.inTime
                   /\ doc.outTime = p.patch.outTime
                   /\ doc.source = "manual"
                   /\ Flags(doc) = MealsOf(doc.inTime, doc.outTime)
                   /\ doc.editReason =
                        IF "editReason" \in DOMAIN p.patch
                        THEN p.patch.editReason
                        ELSE BaseRead(p).editReason
           /\ ( /\ p.kind = "manual"
                /\ p.pc = "setDoc"
                /\ p \notin pending'
                /\ saveStatus' = "Saved" ) =>
                (p.id \in DOMAIN store' /\ store'[p.id] = p.doc)
    ]_vars

\* a manual edit with a blank reason has been stored over a record written
\* by the check-in button: the reason of the button is still there
C23_Witness ==
  /\ pending = {}
  /\ \E id \in DOMAIN store :
       /\ store[id].source = "manual"
       /\ store[id].editReason = CheckInReason
       /\ store[id].inTime = <<"0", "9", ":", "0", "0">>


-----------------------------------------------------------------------------
(* Properties of the stored times (Spec) *)

\* C24: a stored record whose inTime and outTime are both non-empty has an
\* outTime not earlier than its inTime, in minutes of the day, whichever of
\* the check-in, check-out, clear and manual-edit operations wrote it.
C24_OutNotBeforeIn ==
  \A id \in DOMAIN store :
    LET r == store[id] IN
      (r.inTime # <<>> /\ r.outTime # <<>>) =>
        MinutesOf(r.outTime) >= MinutesOf(r.inTime)


-----------------------------------------------------------------------------
(* Properties of calcMeals on inverted intervals (SpecCalc) *)

\* C25: a record whose inTime and outTime are both valid clock strings, the
\* outTime earlier than the inTime, comes back from calcMeals with all four
\* meal flags 0.
C25_InvertedGetsNoMeals ==
  ( /\ CalcDone
    /\ ClockString(CalcIn)
    /\ ClockString(CalcOut)
    /\ MinutesOf(CalcOut) < MinutesOf(CalcIn) ) =>
      Flags(calc.out1) = NoMeals


-----------------------------------------------------------------------------
(* Properties of the manual-edit validation (SpecManual) *)

\* a string denoting a time of the wall clock: two digits, a colon, two
\* digits, the hour 00..23 and the minute 00..59
WallClock(t) ==
  /\ Len(t) = 5
  /\ t[3] = ":"
  /\ \A i \in {1, 2, 4, 5} : IsDigit(t[i])
  /\ 10 * DigitVal(t[1]) + DigitVal(t[2]) <= 23
  /\ 10 * DigitVal(t[4]) + DigitVal(t[5]) <= 59

\* C26: every inTime and every non-empty outTime that a manual edit hands to
\* its upsert, and so every one it stores, is a time of the wall clock: what
\* isValidHHMM lets through has an hour of 00..23 and a minute of 00..59.
C26_ManualTimesAreWallClock ==
  /\ \A p \in pending :
       (p.kind = "manual" /\ p.pc = "getDoc") =>
         /\ isValidHHMM(p.patch.inTime) /\ WallClock(p.patch.inTime)
         /\ p.patch.outTime = <<>> \/ WallClock(p.patch.outTime)
  /\ \A id \in DOMAIN store :
       store[id].source = "manual" =>
         /\ WallClock(store[id].inTime)
         /\ store[id].outTime = <<>> \/ WallClock(store[id].outTime)


-----------------------------------------------------------------------------
(* Properties of the local state across accounts (SpecAuth) *)

\* C27: while a user is signed in, the local kids, records and rates are
\* empty or were delivered by that user's own listeners: the second account,
\* whose collections are empty, never is the current user while the local
\* state holds children, records or rates (those of the first account).
C27_LocalStateIsCurrentUsers ==
  user = GuestUid => (kids = {} /\ records = {} /\ ratesByYear = << >>)


-----------------------------------------------------------------------------
(* Properties of the upserts against their sequential meaning (SpecHist) *)

\* upsertRecord run from its read to its write with nothing in between
upsertAtOnce(st, e) ==
  Spread(st, (e.id :> stripUndefined(mergeRecord(
                        IF e.id \in DOMAIN st THEN st[e.id]
                        ELSE defaultRecord(e.date, e.kid),
                        e.patch))))

RECURSIVE upsertsInOrder(_, _)
upsertsInOrder(st, log) ==
  IF log = << >> THEN st
  ELSE upsertsInOrder(upsertAtOnce(st, Head(log)), Tail(log))

\* the upserts written on one key, in the order of their writes
WrittenOn(id) == SelectSeq(hist.log, LAMBDA e : e.id = id)

SetsInTime(e)  == e.kind \in {"checkIn", "manual", "clear"}
SetsOutTime(e) == e.kind \in {"checkOut", "manual", "clear"}

Last(s) == s[Len(s)]

\* C28: on a key whose upserts ran one at a time, the stored record is the
\* fold of merge-then-recalculate over the patches written, in order, from
\* the record the behaviour began with (the default record when none); its
\* inTime is that of the last check-in, manual edit or clear and its outTime
\* that of the last check-out, manual edit or clear.
C28_SequentialIsFold ==
  \A id \in DOMAIN store :
    (WrittenOn(id) # << >> /\ id \notin hist.overlapped) =>
      /\ store[id] = upsertsInOrder(hist.init, WrittenOn(id))[id]
      /\ LET ins == SelectSeq(WrittenOn(id), SetsInTime)
         IN ins # << >> => store[id].inTime = Last(ins).patch.inTime
      /\ LET outs == SelectSeq(WrittenOn(id), SetsOutTime)
         IN outs # << >> => store[id].outTime = Last(outs).patch.outTime

\* a check-in and then a check-out have been written on one key, one after
\* the other, over no record
C28_Witness ==
  /\ pending = {}
  /\ hist.overlapped = {}
  /\ hist.init = << >>
  /\ Len(hist.log) = 2
  /\ hist.log[1].kind = "checkIn"
  /\ hist.log[2].kind = "checkOut"
  /\ hist.log[1].id = hist.log[2].id


RECURSIVE Reverse(_)
Reverse(s) == IF s = << >> THEN << >> ELSE Append(Reverse(Tail(s)), Head(s))

\* the upserts written so far are on pairwise different keys
DifferentKeys ==
  \A i, j \in 1..Len(hist.log) : i # j => hist.log[i].id # hist.log[j].id

\* C29: upserts on different keys do not interfere, however their reads and
\* writes interleave: a write changes the document of its own key only, and
\* no kid or rate set; and the store is the one that running the upserts
\* written one after the other gives, in the order of their writes and in
\* the opposite order.
C29_DifferentKeysIndependent ==
  /\ [](DifferentKeys =>
          /\ store = upsertsInOrder(hist.init, hist.log)
          /\ store = upsertsInOrder(hist.init, Reverse(hist.log)))
  /\ [][ \A p \in pending :
           (p.pc = "setDoc" /\ p \notin pending' /\ store' # store) =>
             /\ DOMAIN store' = DOMAIN store \cup {p.id}
             /\ \A id \in DOMAIN store \ {p.id} : store'[id] = store[id]
             /\ UNCHANGED <<kidsStore, kids, ratesStore, ratesByYear>>
       ]_vars

\* two upserts begun for different children, both in flight at one time,
\* have both been written, one of them over the record of an earlier session
C29_Witness ==
  /\ pending = {}
  /\ Len(hist.log) = 2
  /\ hist.log[1].id # hist.log[2].id
  /\ {hist.log[1].id, hist.log[2].id} \subseteq hist.together
  /\ hist.init # << >>


-----------------------------------------------------------------------------
(* Properties of the exported workbook (SpecSummary) *)

Exported == "workbook" \in DOMAIN summary

\* the rows of a sheet that satisfy a condition, and the sum of a column
RowsOf(sheet, Cond(_)) == {k \in 1..Len(sheet) : Cond(sheet[k])}
ColumnSum(sheet, I, col) == SumOver([k \in I |-> sheet[k][col]])

\* C30: in the exported workbook the monthly rows of a year add up to the
\* annual row of that year in breakfasts, snacks, lunches and total, and
\* carry its rateYearUsed; the reimbursement values of the Records sheet
\* dated in that year add up to its total; every monthly row and every
\* record belongs to a year that has an annual row.
C30_MonthlyAnnualExportAgree ==
  Exported =>
    LET wb == summary.workbook IN
      /\ \A k \in 1..Len(wb.Annual) :
           LET a  == wb.Annual[k]
               ms == RowsOf(wb.Monthly, LAMBDA m : m.year = a.year)
               rs == RowsOf(wb.Records, LAMBDA r : YearOf(r.date) = a.year)
           IN /\ ms # {}
              /\ \A col \in {"breakfasts", "snacks", "lunches", "total"} :
                   ColumnSum(wb.Monthly, ms, col) = a[col]
              /\ \A i \in ms : wb.Monthly[i].rateYearUsed = a.rateYearUsed
              /\ ColumnSum(wb.Records, rs, "reimbursement") = a.total
      /\ \A i \in 1..Len(wb.Monthly) :
           \E k \in 1..Len(wb.Annual) : wb.Annual[k].year = wb.Monthly[i].year
      /\ \A i \in 1..Len(wb.Records) :
           \E k \in 1..Len(wb.Annual) :
             wb.Annual[k].year = YearOf(wb.Records[i].date)

\* the workbook of three records of 2024 in two months, two of them in
\* March, with a total above zero under the rates of an earlier year
C30_Witness ==
  /\ Exported
  /\ Len(summary.workbook.Records) = 3
  /\ Len(summary.workbook.Monthly) = 2
  /\ Len(summary.workbook.Annual) = 1
  /\ summary.workbook.Annual[1].year = 2024
  /\ summary.workbook.Annual[1].total > 0
  /\ \A i \in 1..3 : summary.workbook.Records[i].reimbursement > 0

====
